---- MODULE Spec2Model ----
(***************************************************************************)
(* Verification model of the launcher's search core:                        *)
(*   - the search orchestrator and its two matcher threads (src/search.rs)  *)
(*   - the ranker sort_search_results / SearchMatch::compare (src/search.rs)*)
(*   - the History (src/history.rs)                                         *)
(*                                                                          *)
(* Scores are f64 in the program.  They are modelled as integers in units   *)
(* of 1e-4 and the weights as integers in tenths, so that the products and  *)
(* differences the ranker computes are exact.                               *)
(***************************************************************************)
EXTENDS Integers, Sequences, FiniteSets, TLC

VARIABLES
    \* ---- search orchestrator (search.rs: search) ----
    spc,        \* position of the thread that called search()
    running,    \* `running`: number of matchers whose sentinel is awaited
    results,    \* `results`: Vec<SearchMatch> collected so far
    chan,       \* the mpsc channel: FIFO of Option<SearchMatch> in flight
    mpc,        \* position of each matcher thread
    todo,       \* number of matches each matcher has still to emit
    tries,      \* `tries` of send_finish, per matcher
    sentLog,    \* history variable: messages each matcher has sent
    \* ---- ranker (search.rs: sort_search_results) ----
    arrival,    \* the collected results, in the order they arrived
    arrival2,   \* the same results in another arrival order
    hmap,       \* the recency map handed to the ranker
    sortedA,    \* arrival after sort_search_results
    sortedB,    \* arrival2 after sort_search_results
    sortDone,   \* sort_search_results has run
    \* ---- history (history.rs: History) ----
    entries,     \* History.entries, front of the deque first
    desktop_ids, \* History.desktop_ids: cache id -> recency score
    next_score,  \* History.next_score
    max_size,    \* History.max_size
    stored,      \* the persisted history file, while History::load reads it
    hstate,      \* "loading", "ok", or "panicked" once a panic has unwound
    \* ---- desktop entry search (cache.rs, search.rs) ----
    cache,       \* DesktopEntryCache.entries
    sim_table,   \* strsim::jaro_winkler, as a table over the strings in use
    search_name, \* `name` of search(): the query
    previous,    \* `previous`: Option<Vec<SearchMatch>>
    matches,     \* `matches` of search_desktop_entries: Vec<Match>
    sent,        \* the SearchMatch messages search_desktop_entries sent
    fpc,         \* position of search_desktop_entries
    \* ---- App (app.rs: App::run) ----
    search_text,    \* App.search_text
    search_results, \* App.search_results
    called,         \* history variable: the last event handled ran search()
    produced,       \* history variable: the last search, its query and result
    smart_content,  \* Ui.smart_content: the ReadyContent it holds
    showing_smart_content, \* Ui.showing_smart_content
    ui_items,       \* the items Ui::set_items last gave to the list views
    last_text,      \* history variable: the text of the last SearchTextChanged
    launched,       \* history variable: what Commit launched or executed
    apc,            \* position of App::run: "running", "returned", "panicked"
    \* ---- content classifier (content.rs: ContentClassifier) ----
    input,               \* the text handed to classify
    url_mode,            \* ContentOptions.url_mode
    dynamic_conversions, \* ContentOptions.dynamic_conversions
    existing,            \* the paths for which fs::metadata succeeds
    classified,          \* what classify returned
    lexed,               \* the tokens classify_unchecked got from lex, if it got there
    cpc,                 \* position of the call of classify
    \* ---- desktop entry cache (cache.rs: DesktopEntryCache::rebuild) ----
    data_dirs,           \* the directories XDG_DATA_DIRS names, as read_dir finds them
    cache_entries,       \* DesktopEntryCache.entries, by file name
    cache_error,         \* DesktopEntryCache.error
    rpc                  \* position of main's call of rebuild

searchVars  == <<spc, running, results, chan, mpc, todo, tries, sentLog>>
sortVars    == <<arrival, arrival2, hmap, sortedA, sortedB, sortDone>>
historyVars == <<entries, desktop_ids, next_score, max_size, stored, hstate>>
findVars    == <<cache, sim_table, search_name, previous, matches, sent, fpc>>
appVars     == <<search_text, search_results, called, produced, smart_content,
                 showing_smart_content, ui_items, last_text, launched, apc>>
contentVars == <<input, url_mode, dynamic_conversions, existing, classified, lexed, cpc>>
cacheVars   == <<data_dirs, cache_entries, cache_error, rpc>>
vars        == <<searchVars, sortVars, historyVars, findVars, appVars, contentVars, cacheVars>>

(***************************************************************************)
(* Bounds of the model                                                      *)
(***************************************************************************)
MaxMatches == 2     \* matches one matcher emits during one search call
NumEntries == 2     \* entries of the desktop entry cache (ids 0..NumEntries-1)
NumPaths   == 2     \* executable files found on PATH
MaxResults == 3     \* length of the result list handed to the ranker
MaxRank    == 2     \* highest recency rank in the map handed to the ranker
MaxSize    == 2     \* largest configured history capacity (history_entries)
MaxStored  == 3     \* longest persisted history file
MaxScore   == 4     \* History::add is not taken once next_score reaches this
MaxDirs    == 3     \* directories named by XDG_DATA_DIRS

(***************************************************************************)
(* Search orchestrator and matcher threads                                  *)
(***************************************************************************)
Matchers == {"path", "desktop"}

\* send_finish gives up after this many failed sends (search.rs:132)
MaxTries == 10

\* A result message Some(SearchMatch); n numbers the matches of one matcher.
SomeMsg(m, n) == [some |-> TRUE, from |-> m, n |-> n]
\* The sentinel None.  It carries nothing.
NoneMsg == [some |-> FALSE, from |-> "-", n |-> 0]

\* The Receiver lives in search()'s frame: it is dropped when search returns.
ReceiverAlive == spc # "returned"

\* Sender::send: queues the message while the receiver exists, Err otherwise.
SendOk == ReceiverAlive
ChanAfterSend(msg) == IF SendOk THEN Append(chan, msg) ELSE chan

SearchIdleInit ==
    /\ spc = "returned"
    /\ running = 0
    /\ results = <<>>
    /\ chan = <<>>
    /\ mpc = [m \in Matchers |-> "done"]
    /\ todo = [m \in Matchers |-> 0]
    /\ tries = [m \in Matchers |-> 0]
    /\ sentLog = [m \in Matchers |-> <<>>]

\* search() entered: channel() created, results empty, running = 0.
\* The number of matches each matcher will find is an input of the call.
SearchInit ==
    /\ spc = "begin_path"
    /\ running = 0
    /\ results = <<>>
    /\ chan = <<>>
    /\ mpc = [m \in Matchers |-> "unspawned"]
    /\ todo \in [Matchers -> 0..MaxMatches]
    /\ tries = [m \in Matchers |-> 0]
    /\ sentLog = [m \in Matchers |-> <<>>]

\* begin!(search_path): spawn the path matcher, running += 1
BeginPath ==
    /\ spc = "begin_path"
    /\ spc' = "begin_desktop"
    /\ mpc' = [mpc EXCEPT !["path"] = "scan"]
    /\ running' = running + 1
    /\ UNCHANGED <<results, chan, todo, tries, sentLog>>
    /\ UNCHANGED <<sortVars, historyVars, findVars, appVars, contentVars, cacheVars>>

\* begin!(search_desktop_entries, cache, previous)
BeginDesktop ==
    /\ spc = "begin_desktop"
    /\ spc' = "recv"
    /\ mpc' = [mpc EXCEPT !["desktop"] = "scan"]
    /\ running' = running + 1
    /\ UNCHANGED <<results, chan, todo, tries, sentLog>>
    /\ UNCHANGED <<sortVars, historyVars, findVars, appVars, contentVars, cacheVars>>

\* SearchRecv with the sentinel test lost: every message counts as a sentinel.
SearchRecv_CountsEveryMessage ==
    /\ spc = "recv"
    /\ running # 0
    /\ chan # <<>>
    /\ chan' = Tail(chan)
    /\ running' = running - 1
    /\ results' = IF Head(chan).some THEN Append(results, Head(chan)) ELSE results
    /\ UNCHANGED <<spc, mpc, todo, tries, sentLog>>
    /\ UNCHANGED <<sortVars, historyVars, findVars, appVars, contentVars, cacheVars>>

\* One iteration of `while running != 0 { match receiver.recv() ... }`.
\* recv() blocks while the channel is empty: search() keeps its own `sender`
\* alive until it returns, so the channel never disconnects and the Err arm
\* is never taken.
SearchRecv ==
    /\ spc = "recv"
    /\ running # 0
    /\ chan # <<>>
    /\ chan' = Tail(chan)
    /\ IF Head(chan).some
         THEN /\ results' = Append(results, Head(chan))
              /\ running' = running
         ELSE /\ running' = running - 1
              /\ results' = results
    /\ UNCHANGED <<spc, mpc, todo, tries, sentLog>>
    /\ UNCHANGED <<sortVars, historyVars, findVars, appVars, contentVars, cacheVars>>

\* running == 0: the loop ends and search returns `results`.
SearchReturn ==
    /\ spc = "recv"
    /\ running = 0
    /\ spc' = "returned"
    /\ UNCHANGED <<running, results, chan, mpc, todo, tries, sentLog>>
    /\ UNCHANGED <<sortVars, historyVars, findVars, appVars, contentVars, cacheVars>>

\* A matcher sends one match: sender.send(Some(SearchMatch::new(..))).ok()
MatcherEmit(m) ==
    /\ mpc[m] = "scan"
    /\ todo[m] > 0
    /\ chan' = ChanAfterSend(SomeMsg(m, todo[m]))
    /\ sentLog' = IF SendOk
                    THEN [sentLog EXCEPT ![m] = Append(@, SomeMsg(m, todo[m]))]
                    ELSE sentLog
    /\ todo' = [todo EXCEPT ![m] = @ - 1]
    /\ UNCHANGED <<spc, running, results, mpc, tries>>
    /\ UNCHANGED <<sortVars, historyVars, findVars, appVars, contentVars, cacheVars>>

\* The matcher's loop is over: it calls send_finish(sender).
MatcherScanEnd(m) ==
    /\ mpc[m] = "scan"
    /\ todo[m] = 0
    /\ mpc' = [mpc EXCEPT ![m] = "finish"]
    /\ UNCHANGED <<spc, running, results, chan, todo, tries, sentLog>>
    /\ UNCHANGED <<sortVars, historyVars, findVars, appVars, contentVars, cacheVars>>

\* search_path unwraps the PATH variable, the file type, the metadata and the
\* UTF-8 conversion of every file name: any of them failing panics the thread
\* before send_finish is reached.
PathPanic ==
    /\ mpc["path"] = "scan"
    /\ mpc' = [mpc EXCEPT !["path"] = "panicked"]
    /\ UNCHANGED <<spc, running, results, chan, todo, tries, sentLog>>
    /\ UNCHANGED <<sortVars, historyVars, findVars, appVars, contentVars, cacheVars>>

\* SendFinish that does not return after the successful send: it sends the
\* sentinel a second time.
SendFinish_Twice(m) ==
    /\ mpc[m] = "finish"
    /\ chan' = ChanAfterSend(NoneMsg) \o <<NoneMsg>>
    /\ mpc' = [mpc EXCEPT ![m] = "done"]
    /\ sentLog' = [sentLog EXCEPT ![m] = @ \o <<NoneMsg, NoneMsg>>]
    /\ UNCHANGED <<spc, running, results, todo, tries>>
    /\ UNCHANGED <<sortVars, historyVars, findVars, appVars, contentVars, cacheVars>>

\* One iteration of send_finish's loop: a successful send returns, a failed
\* one counts a try, and the 10th failure panics the matcher thread.
SendFinish(m) ==
    /\ mpc[m] = "finish"
    /\ chan' = ChanAfterSend(NoneMsg)
    /\ IF SendOk
         THEN /\ mpc' = [mpc EXCEPT ![m] = "done"]
              /\ sentLog' = [sentLog EXCEPT ![m] = Append(@, NoneMsg)]
              /\ tries' = tries
         ELSE /\ tries' = [tries EXCEPT ![m] = @ + 1]
              /\ mpc' = [mpc EXCEPT ![m] =
                           IF tries[m] + 1 < MaxTries THEN "finish" ELSE "panicked"]
              /\ sentLog' = sentLog
    /\ UNCHANGED <<spc, running, results, todo>>
    /\ UNCHANGED <<sortVars, historyVars, findVars, appVars, contentVars, cacheVars>>


SearchNext ==
    \/ BeginPath
    \/ BeginDesktop
    \/ SearchRecv
    \/ SearchReturn
    \/ PathPanic
    \/ \E m \in Matchers : MatcherEmit(m)
    \/ \E m \in Matchers : MatcherScanEnd(m)
    \/ \E m \in Matchers : SendFinish(m)

(***************************************************************************)
(* Scores (search.rs: mod scores).  Unit: 1e-4; weights in tenths.          *)
(***************************************************************************)
LOCALIZED_NAME_WEIGHT         == 14
NAME_WEIGHT                   == 12
LOCALIZED_GENERIC_NAME_WEIGHT == 13
GENERIC_NAME_WEIGHT           == 11
FILE_NAME_WEIGHT              == 8
PATH_WEIGHT                   == 10
EXACT_BASE                    == 12000
EQUAL_THREHOLD                == 10
SIMILARITY_THRESHHOLD         == 7500

\* f64 product of a score (unit 1e-4) and a weight (tenths)
Scale(score, weight) == (score * weight) \div 10

Abs(x) == IF x < 0 THEN -x ELSE x

\* MatchKind::Exact and MatchKind::Similar(sim)
Exact == [kind |-> "Exact", sim |-> 0]
Similar(sim) == [kind |-> "Similar", sim |-> sim]

\* MatchField: the field that matched, carrying the MatchKind
MatchField(field, kind) == [field |-> field, inner |-> kind]

\* the weights of name and localized generic name taken for one another
get_field_scale_NameAboveGeneric(f) ==
    CASE f.field = "LocalizedName"        -> LOCALIZED_NAME_WEIGHT
      [] f.field = "Name"                 -> LOCALIZED_GENERIC_NAME_WEIGHT
      [] f.field = "LocalizedGenericName" -> NAME_WEIGHT
      [] f.field = "GenericName"          -> GENERIC_NAME_WEIGHT
      [] f.field = "FileName"             -> FILE_NAME_WEIGHT

get_field_scale(f) ==
    CASE f.field = "LocalizedName"        -> LOCALIZED_NAME_WEIGHT
      [] f.field = "Name"                 -> NAME_WEIGHT
      [] f.field = "LocalizedGenericName" -> LOCALIZED_GENERIC_NAME_WEIGHT
      [] f.field = "GenericName"          -> GENERIC_NAME_WEIGHT
      [] f.field = "FileName"             -> FILE_NAME_WEIGHT

desktop_entry_score(f) ==
    IF f.inner.kind = "Exact"
      THEN EXACT_BASE
      ELSE Scale(f.inner.sim, get_field_scale(f))

\* path_entry_score, given how the file name compared with the query:
\* Some(EXACT_BASE), Some(sim) or None (here -1)
path_entry_score(k) ==
    IF k.kind = "Exact" THEN EXACT_BASE
    ELSE IF k.sim < SIMILARITY_THRESHHOLD THEN -1 ELSE k.sim

(***************************************************************************)
(* The cache and the PATH the matchers read.  A name is a string, modelled  *)
(* as a tuple of character codes; desktop entry i is called <<1>>, <<1,2>>, *)
(* <<1,2,3>>.. and executable p is called <<1>>, <<1,1>>, <<1,1,1>>.., so   *)
(* that entry 0 and executable 1 share their name, as an application and    *)
(* its binary do.                                                           *)
(***************************************************************************)
CacheIds == 0..(NumEntries - 1)
Paths    == 1..NumPaths

EntryName(id)   == [i \in 1..(id + 1) |-> i]
PathFileName(p) == [i \in 1..p |-> 1]

\* SearchMatch::new(match_, score): is_in_history starts false
SearchMatch_new(kind, id, name, score) ==
    [kind |-> kind, id |-> id, name |-> name, score |-> score,
     is_in_history |-> FALSE]

\* the SearchMatch search_desktop_entries sends for a cache::Match
DesktopMatch(id, f) ==
    SearchMatch_new("desktop", id, EntryName(id), desktop_entry_score(f))

\* the SearchMatch search_path sends for an executable
PathMatch(p, k) ==
    SearchMatch_new("path", p, PathFileName(p),
                    Scale(path_entry_score(k), PATH_WEIGHT))

(***************************************************************************)
(* Ranker                                                                   *)
(***************************************************************************)
\* str::cmp: lexicographic comparison
RECURSIVE StrCmp(_, _)
StrCmp(a, b) ==
    IF a = <<>> /\ b = <<>> THEN "Equal"
    ELSE IF a = <<>> THEN "Less"
    ELSE IF b = <<>> THEN "Greater"
    ELSE IF Head(a) < Head(b) THEN "Less"
    ELSE IF Head(a) > Head(b) THEN "Greater"
    ELSE StrCmp(Tail(a), Tail(b))

\* f64::total_cmp on the modelled scores
total_cmp(x, y) == IF x < y THEN "Less" ELSE IF x > y THEN "Greater" ELSE "Equal"

\* SearchMatch::compare
compare(self, other) ==
    IF Abs(self.score - other.score) <= EQUAL_THREHOLD
      THEN StrCmp(self.name, other.name)
      ELSE total_cmp(other.score, self.score)

\* slice::sort_by(|a, b| a.compare(b)): the stable sort of the standard
\* library, which for a slice this short is an insertion sort: each element
\* in turn is moved left past the elements it is less than.
RECURSIVE InsertTail(_, _)
InsertTail(v, x) ==
    IF v = <<>> THEN <<x>>
    ELSE IF compare(x, v[Len(v)]) = "Less"
      THEN Append(InsertTail(SubSeq(v, 1, Len(v) - 1), x), v[Len(v)])
      ELSE Append(v, x)

RECURSIVE sort_by(_)
sort_by(v) ==
    IF Len(v) <= 1 THEN v
    ELSE InsertTail(sort_by(SubSeq(v, 1, Len(v) - 1)), v[Len(v)])

\* Boost without the test for a desktop entry: a path whose number is a key
\* of the map is boosted too.
Boost_AnyKind(result, history) ==
    IF result.id \in DOMAIN history
      THEN [result EXCEPT !.score = @ * 2 * history[result.id],
                          !.is_in_history = TRUE]
      ELSE result

\* Boost by the recency alone, without the factor 2.0
Boost_Undoubled(result, history) ==
    IF result.kind = "desktop" /\ result.id \in DOMAIN history
      THEN [result EXCEPT !.score = @ * history[result.id],
                          !.is_in_history = TRUE]
      ELSE result

\* The first loop of sort_search_results, for one result.
Boost(result, history) ==
    IF result.kind = "desktop" /\ result.id \in DOMAIN history
      THEN [result EXCEPT !.score = @ * 2 * history[result.id],
                          !.is_in_history = TRUE]
      ELSE result

sort_search_results(rs, history) ==
    sort_by([i \in DOMAIN rs |-> Boost(rs[i], history)])

\* --- inputs of the ranker ---
\* what a desktop entry can have matched with, and a path
DesktopFieldPool ==
    { MatchField("Name", Exact),
      MatchField("Name", Similar(7500)),
      MatchField("Name", Similar(7510)),
      \* the lowest and the highest score a desktop match can have
      MatchField("FileName", Similar(SIMILARITY_THRESHHOLD)),
      MatchField("LocalizedName", Similar(9990)) }
PathKindPool == { Exact, Similar(9008) }

\* find_all scans the cache in id order: the desktop matches of S, by id
RECURSIVE DesktopSeq(_, _)
DesktopSeq(S, f) ==
    IF S = {} THEN <<>>
    ELSE LET m == CHOOSE x \in S : \A y \in S : x <= y
         IN  <<DesktopMatch(m, f[m])>> \o DesktopSeq(S \ {m}, f)

DesktopSeqs ==
    UNION { { DesktopSeq(S, f) : f \in [S -> DesktopFieldPool] } :
            S \in SUBSET CacheIds }

\* read_dir lists the executables in no particular order
PathSeqs ==
    UNION { UNION { { [i \in 1..Cardinality(S) |-> PathMatch(q[i], g[q[i]])] :
                      g \in [S -> PathKindPool] } :
                    q \in { r \in [1..Cardinality(S) -> S] :
                            \A i, j \in 1..Cardinality(S) : r[i] = r[j] => i = j } } :
            S \in SUBSET Paths }

\* the orders in which the messages of two senders can arrive
RECURSIVE Interleavings(_, _)
Interleavings(d, p) ==
    IF d = <<>> THEN {p}
    ELSE IF p = <<>> THEN {d}
    ELSE { <<Head(d)>> \o r : r \in Interleavings(Tail(d), p) }
         \cup { <<Head(p)>> \o r : r \in Interleavings(d, Tail(p)) }

SelectKind(rs, kind) == SelectSeq(rs, LAMBDA r : r.kind = kind)

\* recency maps: some cache ids, each with its own rank
RecencyMaps ==
    UNION { { h \in [S -> 1..MaxRank] : \A a, b \in S : h[a] = h[b] => a = b } :
            S \in SUBSET CacheIds }

SortIdleInit ==
    /\ arrival = <<>>
    /\ arrival2 = <<>>
    /\ hmap = <<>>
    /\ sortedA = <<>>
    /\ sortedB = <<>>
    /\ sortDone = TRUE

SortInit ==
    /\ \E d \in DesktopSeqs, p \in PathSeqs :
         /\ Len(d) + Len(p) <= MaxResults
         /\ arrival \in Interleavings(d, p)
    /\ arrival2 = <<>>
    /\ hmap \in RecencyMaps
    /\ sortedA = <<>>
    /\ sortedB = <<>>
    /\ sortDone = FALSE

\* App::run, SearchTextChanged: sort_search_results(&mut search_results,
\* history.desktop_ids()), for the arrival order of this run and for another
\* order in which the same messages could have arrived.
Sort ==
    /\ ~sortDone
    /\ arrival2' \in Interleavings(SelectKind(arrival, "desktop"),
                                   SelectKind(arrival, "path"))
    /\ sortedA' = sort_search_results(arrival, hmap)
    /\ sortedB' = sort_search_results(arrival2', hmap)
    /\ sortDone' = TRUE
    /\ UNCHANGED <<arrival, hmap>>
    /\ UNCHANGED <<searchVars, historyVars, findVars, appVars, contentVars, cacheVars>>

SortNext == Sort


(***************************************************************************)
(* History (history.rs)                                                     *)
(***************************************************************************)
\* Entry.file_name of cache entry id: the name of its .desktop file
file_name(id) == 100 + id

\* Option::None of an Option<usize>
None == -1

\* DesktopEntryCache::find_file: the first id whose file_name is the given one
find_file(f) ==
    IF \E id \in CacheIds : file_name(id) = f
      THEN CHOOSE id \in CacheIds :
             /\ file_name(id) = f
             /\ \A other \in CacheIds : file_name(other) = f => id <= other
      ELSE None

\* history::Entry
Entry_Path(p)         == [kind |-> "Path", key |-> p]
Entry_DesktopEntry(f) == [kind |-> "DesktopEntry", key |-> f]

\* What a persisted history can name: the entries of the cache and the
\* executables of PATH, and one .desktop file and one executable that have
\* been uninstalled since the history was stored.
StoredEntries ==
    { Entry_DesktopEntry(file_name(id)) : id \in 0..NumEntries }
      \cup { Entry_Path(p) : p \in 1..(NumPaths + 1) }

\* The persisted file: missing, empty, not parseable (a write cut short, an
\* edit by hand), or the sequence History::store wrote.  store writes
\* `entries`, in which no entry occurs twice, and it may have been written
\* while history_entries was configured larger than it is now.
StoredFiles ==
    { [state |-> "missing", data |-> <<>>], [state |-> "empty", data |-> <<>>],
      [state |-> "corrupt", data |-> <<>>] }
      \cup { [state |-> "ok", data |-> d] :
             d \in { q \in UNION { [1..n -> StoredEntries] : n \in 0..MaxStored } :
                     \A i, j \in DOMAIN q : q[i] = q[j] => i = j } }

\* History::new
new(max) ==
    [entries |-> <<>>, desktop_ids |-> <<>>, next_score |-> 0, max_size |-> max]

\* the filter of History::load: the path or the desktop file still exists
Resolves(e) ==
    IF e.kind = "Path" THEN e.key \in Paths ELSE find_file(e.key) # None

\* `ron::from_str(&history_data).unwrap()`: Err is a panic
load_panics(file) == file.state = "corrupt"

\* History::load, where it returns
load(file, max) ==
    IF file.state # "ok" THEN new(max)
    ELSE LET es  == SelectSeq(file.data, Resolves)
             ids == { find_file(es[i].key) :
                      i \in { j \in DOMAIN es : es[j].kind = "DesktopEntry" } }
             \* the last insert for an id is the one that stays
             last(id) == CHOOSE i \in DOMAIN es :
                           /\ es[i].kind = "DesktopEntry"
                           /\ find_file(es[i].key) = id
                           /\ \A j \in DOMAIN es :
                                (es[j].kind = "DesktopEntry"
                                   /\ find_file(es[j].key) = id) => j <= i
         IN  [entries     |-> es,
              \* idx counts from 0 in the code: entries.len() - idx
              desktop_ids |-> [id \in ids |-> Len(es) - (last(id) - 1)],
              next_score  |-> Len(es),
              max_size    |-> max]

HistoryIdleInit ==
    /\ entries = <<>>
    /\ desktop_ids = <<>>
    /\ next_score = 0
    /\ max_size = 0
    /\ stored = [state |-> "missing", data |-> <<>>]
    /\ hstate = "ok"

\* App::new: History::load(cache, config.history_entries)
HistoryInit ==
    \E file \in StoredFiles, max \in 0..MaxSize :
        LET h == load(file, max)
        IN  /\ ~load_panics(file)
            /\ stored = [state |-> "missing", data |-> <<>>]
            /\ hstate = "ok"
            /\ entries = h.entries
            /\ desktop_ids = h.desktop_ids
            /\ next_score = h.next_score
            /\ max_size = h.max_size

\* main, before App::new: the file on disk and the configured capacity
LoadInit ==
    /\ stored \in StoredFiles
    /\ max_size \in 0..MaxSize
    /\ entries = <<>>
    /\ desktop_ids = <<>>
    /\ next_score = 0
    /\ hstate = "loading"

\* App::new: History::load(cache, config.history_entries)
Load ==
    /\ hstate = "loading"
    /\ IF load_panics(stored)
         THEN /\ hstate' = "panicked"
              /\ UNCHANGED <<entries, desktop_ids, next_score>>
         ELSE LET h == load(stored, max_size)
              IN  /\ hstate' = "ok"
                  /\ entries' = h.entries
                  /\ desktop_ids' = h.desktop_ids
                  /\ next_score' = h.next_score
    /\ UNCHANGED <<max_size, stored>>
    /\ UNCHANGED <<searchVars, sortVars, findVars, appVars, contentVars, cacheVars>>

LoadNext == Load

\* What can be committed: a desktop entry of the cache or an executable
Results ==
    { [kind |-> "desktop", id |-> id] : id \in CacheIds }
      \cup { [kind |-> "path", id |-> p] : p \in Paths }

\* the history::Entry made of a result in History::add
EntryOf(result) ==
    IF result.kind = "path"
      THEN Entry_Path(result.id)
      ELSE Entry_DesktopEntry(file_name(result.id))

\* VecDeque::remove(idx), idx counted from 1 here
RemoveAt(q, idx) == SubSeq(q, 1, idx - 1) \o SubSeq(q, idx + 1, Len(q))

\* `for idx in 0..len { if entries[idx] == entry { remove(idx); break } }`
RemoveFirst(q, e) ==
    IF \E i \in DOMAIN q : q[i] = e
      THEN RemoveAt(q, CHOOSE i \in DOMAIN q :
                         q[i] = e /\ \A j \in DOMAIN q : q[j] = e => i <= j)
      ELSE q

\* `if entries.len() == max_size { entries.pop_back(); }`
DropOldest(q, max) ==
    IF Len(q) = max /\ q # <<>> THEN SubSeq(q, 1, Len(q) - 1) ELSE q

\* History::add
add(result) ==
    /\ hstate = "ok"
    /\ next_score < MaxScore
    /\ IF result.kind = "desktop"
         THEN /\ desktop_ids' =
                   [id \in DOMAIN desktop_ids \cup {result.id} |->
                      IF id = result.id THEN next_score ELSE desktop_ids[id]]
              /\ next_score' = next_score + 1
         ELSE UNCHANGED <<desktop_ids, next_score>>
    /\ entries' = <<EntryOf(result)>>
                    \o DropOldest(RemoveFirst(entries, EntryOf(result)), max_size)
    /\ UNCHANGED <<max_size, stored, hstate>>
    /\ UNCHANGED <<searchVars, sortVars, findVars, appVars, contentVars, cacheVars>>

\* History::renew; the position comes from the list the UI shows
renew(id) ==
    /\ hstate = "ok"
    /\ id \in DOMAIN entries
    /\ entries' = <<entries[id]>> \o RemoveAt(entries, id)
    /\ UNCHANGED <<desktop_ids, next_score, max_size, stored, hstate>>
    /\ UNCHANGED <<searchVars, sortVars, findVars, appVars, contentVars, cacheVars>>

\* the key removed from the index is the position, not the id found for
\* the entry's file name (the two are both called `id`)
delete_KeyIsPosition(id) ==
    /\ hstate = "ok"
    /\ id \in DOMAIN entries
    /\ entries' = RemoveAt(entries, id)
    /\ IF entries[id].kind = "DesktopEntry"
         THEN IF find_file(entries[id].key) # None /\ (id - 1) \in DOMAIN desktop_ids
                THEN /\ desktop_ids' =
                          [k \in DOMAIN desktop_ids \ {id - 1} |-> desktop_ids[k]]
                     /\ hstate' = "ok"
                ELSE /\ desktop_ids' = desktop_ids
                     /\ hstate' = "panicked"
         ELSE UNCHANGED <<desktop_ids, hstate>>
    /\ UNCHANGED <<next_score, max_size, stored>>
    /\ UNCHANGED <<searchVars, sortVars, findVars, appVars, contentVars, cacheVars>>

\* History::delete; the position (counted from 1 here) comes from the list
\* the UI shows.  The two unwraps after the removal panic on None.
delete(id) ==
    /\ hstate = "ok"
    /\ id \in DOMAIN entries
    /\ entries' = RemoveAt(entries, id)
    /\ IF entries[id].kind = "DesktopEntry"
         THEN LET cid == find_file(entries[id].key)
              IN  IF cid # None /\ cid \in DOMAIN desktop_ids
                    THEN /\ desktop_ids' =
                              [k \in DOMAIN desktop_ids \ {cid} |-> desktop_ids[k]]
                         /\ hstate' = "ok"
                    ELSE /\ desktop_ids' = desktop_ids
                         /\ hstate' = "panicked"
         ELSE UNCHANGED <<desktop_ids, hstate>>
    /\ UNCHANGED <<next_score, max_size, stored>>
    /\ UNCHANGED <<searchVars, sortVars, findVars, appVars, contentVars, cacheVars>>

HistoryNext ==
    \/ \E result \in Results : add(result)
    \/ \E id \in DOMAIN entries : renew(id)
    \/ \E id \in DOMAIN entries : delete(id)

(***************************************************************************)
(* Desktop entry search (cache.rs: get_match, find_subset, find_all;        *)
(* search.rs: search_desktop_entries).  A string is a tuple of character    *)
(* codes.                                                                   *)
(***************************************************************************)
\* Option<String>
SomeStr(v) == [some |-> TRUE, value |-> v]
NoStr      == [some |-> FALSE, value |-> <<>>]

\* cache::Entry (exec and icon play no part in the search)
Entry(n, ln, gn, lgn, fn) ==
    [name |-> n, localized_name |-> ln, generic_name |-> gn,
     localized_generic_name |-> lgn, file_name |-> fn]

\* str::to_lowercase on the characters in use: 'A'..'Z' become 'a'..'z'
to_lowercase(v) ==
    [i \in DOMAIN v |-> IF v[i] \in 65..90 THEN v[i] + 32 ELSE v[i]]

\* Option<MatchKind>
SomeKind(k) == [some |-> TRUE, kind |-> k]
NoKind      == [some |-> FALSE, kind |-> Exact]

\* a threshold the similarity must exceed, not reach
get_match_Above(n, entry_value) ==
    IF entry_value = n
      THEN SomeKind(Exact)
      ELSE LET sim == sim_table[<<n, entry_value>>]
           IN  IF sim > SIMILARITY_THRESHHOLD
                 THEN SomeKind(Similar(sim))
                 ELSE NoKind

\* DesktopEntryCache::get_match
get_match(n, entry_value) ==
    IF entry_value = n
      THEN SomeKind(Exact)
      ELSE LET sim == sim_table[<<n, entry_value>>]
           IN  IF sim >= SIMILARITY_THRESHHOLD
                 THEN SomeKind(Similar(sim))
                 ELSE NoKind

\* cache::Match
Match(id, field) == [id |-> id, field |-> field]

\* the check! invocations of find_subset, in their order
Checks(entry) ==
    << <<entry.localized_name, "LocalizedName">>,
       <<SomeStr(entry.name), "Name">>,
       <<entry.localized_generic_name, "LocalizedGenericName">>,
       <<entry.generic_name, "GenericName">>,
       <<SomeStr(entry.file_name), "FileName">> >>

\* one check!: the value is there and get_match gives Some
check(n, c) ==
    IF c[1].some THEN get_match(n, to_lowercase(c[1].value)) ELSE NoKind

\* the loop body that keeps the best scoring field instead of the first
ScanEntry_BestField(n, id) ==
    LET cs   == Checks(cache[id + 1])
        hits == { i \in DOMAIN cs : check(n, cs[i]).some }
        f(i) == MatchField(cs[i][2], check(n, cs[i]).kind)
    IN  IF hits = {} THEN <<>>
        ELSE LET i == CHOOSE x \in hits : \A y \in hits :
                        \/ desktop_entry_score(f(x)) > desktop_entry_score(f(y))
                        \/ /\ desktop_entry_score(f(x)) = desktop_entry_score(f(y))
                           /\ x <= y
             IN  <<Match(id, f(i))>>

\* the body of the loop of find_subset for one id: the first check! that
\* matches pushes a Match and continues with the next id
ScanEntry(n, id) ==
    LET cs   == Checks(cache[id + 1])
        hits == { i \in DOMAIN cs : check(n, cs[i]).some }
    IN  IF hits = {} THEN <<>>
        ELSE LET i == CHOOSE x \in hits : \A y \in hits : x <= y
             IN  <<Match(id, MatchField(cs[i][2], check(n, cs[i]).kind))>>

\* DesktopEntryCache::find_subset; `set` is the iterator's ids in its order
RECURSIVE find_subset(_, _)
find_subset(n, set) ==
    IF set = <<>> THEN <<>>
    ELSE ScanEntry(n, Head(set)) \o find_subset(n, Tail(set))

\* DesktopEntryCache::find_all: find_subset over 0..entries.len()
find_all(n) == find_subset(n, [i \in 1..Len(cache) |-> i - 1])

\* Option<Vec<SearchMatch>>
SomePrevious(list) == [some |-> TRUE, list |-> list]
NoPrevious         == [some |-> FALSE, list |-> <<>>]

\* the ids search_desktop_entries hands to find_subset: those of the
\* desktop matches of `previous`, in its order
PreviousIds(list) ==
    LET d == SelectKind(list, "desktop") IN [i \in DOMAIN d |-> d[i].id]

\* search_desktop_entries that scans the whole cache whatever `previous` is
desktop_matches_AlwaysAll(n, prev) == find_all(n)

\* search_desktop_entries: `matches`
desktop_matches(n, prev) ==
    IF prev.some THEN find_subset(n, PreviousIds(prev.list)) ELSE find_all(n)

\* search_desktop_entries: the SearchMatch sent for a Match
SentFor(m) ==
    SearchMatch_new("desktop", m.id, cache[m.id + 1].name,
                    desktop_entry_score(m.field))

\* --- inputs of the desktop entry search ---
\* "A", "ab", "b" and the names of four .desktop files
StrA  == <<65>>
StrAB == <<97, 98>>
StrB  == <<98>>

\* the entries a cache can hold: rebuild keeps one entry per file_name
EntryPool ==
    { Entry(StrA, NoStr, NoStr, NoStr, <<99>>),
      Entry(StrA, SomeStr(StrAB), NoStr, NoStr, <<100>>),
      Entry(StrB, NoStr, SomeStr(StrAB), SomeStr(StrA), <<101>>),
      Entry(StrB, NoStr, NoStr, NoStr, StrAB) }

Caches ==
    { c \in [1..NumEntries -> EntryPool] :
        \A i, j \in 1..NumEntries : c[i] = c[j] => i = j }

\* the queries typed
QueryPool == { StrA, StrAB }

\* the lowercased values find_subset compares the query with
ValuesOf(c) ==
    UNION { { to_lowercase(cs[i][1].value) :
              i \in { k \in DOMAIN cs : cs[k][1].some } } :
            cs \in { Checks(c[id]) : id \in DOMAIN c } }

\* what jaro_winkler can return for two different strings: below the
\* threshold, the threshold, above it
SimPool == { 7000, SIMILARITY_THRESHHOLD, 9000 }

SimTables(n, c) == [{ <<n, v>> : v \in ValuesOf(c) \ {n} } -> SimPool]

\* the results of an earlier search: desktop matches of some entries in some
\* order, a path match among them
PreviousItems(c) ==
    { SearchMatch_new("desktop", id - 1, c[id].name, EXACT_BASE) : id \in DOMAIN c }
      \cup { PathMatch(1, Exact) }

PreviousLists(c) ==
    { q \in UNION { [1..n -> PreviousItems(c)] : n \in 0..MaxMatches } :
        \A i, j \in DOMAIN q : q[i] = q[j] => i = j }

FindIdleInit ==
    /\ cache = <<>>
    /\ sim_table = <<>>
    /\ search_name = <<>>
    /\ previous = NoPrevious
    /\ matches = <<>>
    /\ sent = <<>>
    /\ fpc = "idle"

FindInit ==
    /\ cache \in Caches
    /\ search_name \in QueryPool
    /\ sim_table \in SimTables(to_lowercase(search_name), cache)
    /\ previous \in {NoPrevious} \cup { SomePrevious(l) : l \in PreviousLists(cache) }
    /\ matches = <<>>
    /\ sent = <<>>
    /\ fpc = "start"

\* search: `let my_name = name.to_lowercase ()`, then the thread running
\* search_desktop_entries (my_name, .., previous) up to send_finish
SearchDesktopEntries ==
    /\ fpc = "start"
    /\ matches' = desktop_matches(to_lowercase(search_name), previous)
    /\ sent' = [i \in DOMAIN matches' |-> SentFor(matches'[i])]
    /\ fpc' = "done"
    /\ UNCHANGED <<cache, sim_table, search_name, previous>>
    /\ UNCHANGED <<searchVars, sortVars, historyVars, appVars, contentVars, cacheVars>>

FindNext == SearchDesktopEntries

(***************************************************************************)
(* App (app.rs: App::run, Signal::SearchTextChanged)                        *)
(***************************************************************************)
\* the number of bytes of a character in UTF-8
Utf8Len(c) == IF c < 128 THEN 1 ELSE IF c < 2048 THEN 2 ELSE IF c < 65536 THEN 3 ELSE 4

\* str::len: the length in bytes
RECURSIVE str_len(_)
str_len(v) == IF v = <<>> THEN 0 ELSE Utf8Len(Head(v)) + str_len(Tail(v))

\* str::starts_with
starts_with(v, prefix) ==
    Len(prefix) <= Len(v) /\ SubSeq(v, 1, Len(prefix)) = prefix

\* str::trim, the white space in use being the blank
RECURSIVE trim(_)
trim(v) ==
    IF v = <<>> THEN v
    ELSE IF Head(v) = 32 THEN trim(Tail(v))
    ELSE IF v[Len(v)] = 32 THEN trim(SubSeq(v, 1, Len(v) - 1))
    ELSE v

\* `if text.starts_with('$') { text[1..].trim() } else { text }`
StripCommandSign(text) ==
    IF text # <<>> /\ Head(text) = 36 THEN trim(Tail(text)) ELSE text

\* search_path: the executables of PATH whose lowercased file name is the
\* query or similar enough, in the order read_dir lists them
RECURSIVE search_path(_, _)
search_path(n, order) ==
    IF order = <<>> THEN <<>>
    ELSE LET fname == to_lowercase(PathFileName(Head(order)))
             k == IF fname = n THEN Exact ELSE Similar(sim_table[<<n, fname>>])
         IN  (IF path_entry_score(k) >= SIMILARITY_THRESHHOLD
                THEN <<PathMatch(Head(order), k)>> ELSE <<>>)
             \o search_path(n, Tail(order))

\* the order in which read_dir lists the executables of this PATH
DirOrder == [i \in 1..NumPaths |-> i]

\* `self.search_text.len() >= 3 && text.starts_with(&self.search_text)`
UsePrevious(text) ==
    str_len(search_text) >= 3 /\ starts_with(text, search_text)


(***************************************************************************)
(* Content classifier (content.rs)                                          *)
(*                                                                          *)
(* Texts are tuples of character codes, as everywhere in this module.      *)
(* Numbers (f64 in the code) are integers in thousandths.                  *)
(***************************************************************************)
IsDigit(c)    == c \in 48..57
IsAlpha(c)    == c \in 65..90 \/ c \in 97..122
IsWordChar(c) == IsAlpha(c) \/ IsDigit(c) \/ c = 95

\* Option<T>
NoneOpt    == [some |-> FALSE]
SomeOpt(x) == [some |-> TRUE, value |-> x]

\* Result<f64, meval::Error>
EvalOk(x) == [ok |-> TRUE, value |-> x]
EvalErr   == [ok |-> FALSE]

\* ---- UrlMode and ContentClassifier::is_url ----
UrlModes == {"None", "Http", "Loose"}

\* [-a-zA-Z0-9@:%._\+~#=]
UrlHostChar(c) == IsAlpha(c) \/ IsDigit(c) \/ c \in {45, 64, 58, 37, 46, 95, 43, 126, 35, 61}
\* [a-zA-Z0-9()]
UrlTldChar(c)  == IsAlpha(c) \/ IsDigit(c) \/ c \in {40, 41}

\* \b after position i of s
WordBoundaryAfter(s, i) ==
    LET before == i >= 1 /\ i <= Len(s) /\ IsWordChar(s[i])
        after  == i + 1 <= Len(s) /\ IsWordChar(s[i + 1])
    IN  before # after

\* \.[a-zA-Z0-9()]{1,6}\b with the dot at position j
UrlDotTld(s, j) ==
    /\ j \in DOMAIN s
    /\ s[j] = 46
    /\ \E m \in 1..6 :
         /\ j + m <= Len(s)
         /\ \A x \in (j + 1)..(j + m) : UrlTldChar(s[x])
         /\ WordBoundaryAfter(s, j + m)

\* LOOSE_URL_REGEX matches somewhere in s; the trailing group matches the
\* empty text
LooseUrlMatch(s) ==
    \E j \in 2..Len(s) : UrlHostChar(s[j - 1]) /\ UrlDotTld(s, j)

\* HTTP_URL_REGEX matches somewhere in s; "www." consists of host
\* characters, so taking or skipping the optional group accepts the same texts
HttpUrlMatch(s) ==
    \E p \in DOMAIN s : \E scheme \in {<<104, 116, 116, 112, 58, 47, 47>>, <<104, 116, 116, 112, 115, 58, 47, 47>>} :
        /\ p + Len(scheme) - 1 <= Len(s)
        /\ SubSeq(s, p, p + Len(scheme) - 1) = scheme
        /\ \E j \in (p + Len(scheme) + 1)..Len(s) :
             /\ \A x \in (p + Len(scheme))..(j - 1) : UrlHostChar(s[x])
             /\ UrlDotTld(s, j)

UrlMode_regex(mode) ==
    CASE mode = "None"  -> NoneOpt
      [] mode = "Http"  -> SomeOpt("HTTP_URL_REGEX")
      [] mode = "Loose" -> SomeOpt("LOOSE_URL_REGEX")

is_url(mode, s) ==
    LET regex == UrlMode_regex(mode)
    IN  IF regex.some
        THEN IF regex.value = "HTTP_URL_REGEX" THEN HttpUrlMatch(s)
                                              ELSE LooseUrlMatch(s)
        ELSE FALSE

consider_for_basic_expression(s) ==
    ~(\A i \in DOMAIN trim(s) : IsDigit(trim(s)[i]))

\* ---- f64 from its decimal text (str::parse) ----
RECURSIVE DigitsValue(_)
DigitsValue(d) ==
    IF d = <<>> THEN 0
    ELSE DigitsValue(SubSeq(d, 1, Len(d) - 1)) * 10 + (d[Len(d)] - 48)

parse_f64(str) ==
    LET points == { i \in DOMAIN str : str[i] = 46 }
        p      == IF points = {} THEN Len(str) + 1
                  ELSE CHOOSE i \in points : \A k \in points : i <= k
        frac   == SubSeq(SubSeq(str, p + 1, Len(str)) \o <<48, 48, 48>>, 1, 3)
    IN  DigitsValue(SubSeq(str, 1, p - 1)) * 1000 + DigitsValue(frac)

\* ---- meval::eval_str on the texts in use ----
\* The texts in use are sums of decimal numbers, which meval evaluates, and
\* texts meval rejects: a text that is not such a sum is an error.
RECURSIVE EvalNumberEnd(_, _, _)
\* the position after the number that starts at i
EvalNumberEnd(s, i, seen_point) ==
    IF i > Len(s) THEN i
    ELSE IF IsDigit(s[i]) THEN EvalNumberEnd(s, i + 1, seen_point)
    ELSE IF s[i] = 46 /\ ~seen_point /\ i + 1 <= Len(s) /\ IsDigit(s[i + 1])
         THEN EvalNumberEnd(s, i + 1, TRUE)
    ELSE i

RECURSIVE EvalSum(_, _, _, _)
\* want_number: the next token has to be a number (else a '+' or the end)
EvalSum(s, i, want_number, acc) ==
    IF i > Len(s) THEN IF want_number THEN EvalErr ELSE EvalOk(acc)
    ELSE IF s[i] = 32 THEN EvalSum(s, i + 1, want_number, acc)
    ELSE IF want_number
         THEN IF IsDigit(s[i])
              THEN LET e == EvalNumberEnd(s, i, FALSE)
                   IN  EvalSum(s, e, FALSE, acc + parse_f64(SubSeq(s, i, e - 1)))
              ELSE EvalErr
    ELSE IF s[i] = 43 THEN EvalSum(s, i + 1, TRUE, acc)
    ELSE EvalErr

eval_str(expr) == EvalSum(expr, 1, TRUE, 0)

\* ---- Token and lex ----
Number(n) == [type |-> "Number", num |-> n]
Text(t)   == [type |-> "Text", text |-> t]
Symbol(c) == [type |-> "Symbol", char |-> c]

\* is_letter: ASCII letters, '/', and every byte with one of the two top
\* bits set, which for a character is a code of 64 or more
is_letter(c) == IsAlpha(c) \/ c = 47 \/ c >= 64

RECURSIVE LexNumber(_, _, _, _, _)
LexNumber_LaterSeparatorsSkipped(bytes, i, string, saw_decimal_point, overhead) ==
    IF i > Len(bytes) THEN [string |-> string, overhead |-> overhead]
    ELSE IF IsDigit(bytes[i])
         THEN LexNumber(bytes, i + 1, Append(string, bytes[i]),
                        saw_decimal_point, overhead)
    ELSE IF bytes[i] \in {46, 44} /\ ~saw_decimal_point
         THEN LexNumber(bytes, i + 1, Append(string, 46), TRUE, overhead)
    ELSE IF bytes[i] \in {46, 44, 95}
         THEN LexNumber(bytes, i + 1, string, saw_decimal_point, overhead + 1)
    ELSE [string |-> string, overhead |-> overhead]

\* the loop over a number: the text collected and the overhead counted
LexNumber(bytes, i, string, saw_decimal_point, overhead) ==
    IF i > Len(bytes) THEN [string |-> string, overhead |-> overhead]
    ELSE IF IsDigit(bytes[i])
         THEN LexNumber(bytes, i + 1, Append(string, bytes[i]),
                        saw_decimal_point, overhead)
    ELSE IF bytes[i] \in {46, 44} /\ ~saw_decimal_point
         THEN LexNumber(bytes, i + 1, Append(string, 46), TRUE, overhead)
    ELSE IF bytes[i] = 95
         THEN LexNumber(bytes, i + 1, string, saw_decimal_point, overhead + 1)
    ELSE [string |-> string, overhead |-> overhead]

RECURSIVE LexText(_, _)
\* the length of the run of letters at the start of bytes
LexText(bytes, len) ==
    IF len + 1 <= Len(bytes) /\ is_letter(bytes[len + 1])
    THEN LexText(bytes, len + 1)
    ELSE len

RECURSIVE lex(_)
lex(bytes) ==
    IF bytes = <<>> THEN <<>>
    ELSE LET b == bytes[1]
         IN  IF IsDigit(b)
             THEN LET r   == LexNumber(bytes, 1, <<>>, FALSE, 0)
                      end == Len(r.string) + r.overhead
                  IN  <<Number(parse_f64(r.string))>>
                          \o lex(SubSeq(bytes, end + 1, Len(bytes)))
             ELSE IF is_letter(b)
             THEN LET len == LexText(bytes, 0)
                  IN  <<Text(SubSeq(bytes, 1, len))>>
                          \o lex(SubSeq(bytes, len + 1, Len(bytes)))
             ELSE IF b = 32 THEN lex(Tail(bytes))
             ELSE <<Symbol(b)>> \o lex(Tail(bytes))

\* ---- units (units.rs, static_units.rs), restricted to the words in use ----
Distance(u, prefix) == [family |-> "Distance", unit |-> u, prefix |-> prefix]
Mass(u, prefix)     == [family |-> "Mass", unit |-> u, prefix |-> prefix]
Currency(code)      == [family |-> "Currency", unit |-> code, prefix |-> "None"]

\* the prefixes of the table that the words in use can start with, in the
\* table's order; the empty prefix ends the table and matches every word
SiPrefixes ==
    << [text |-> <<107, 105, 108, 111>>, prefix |-> "Kilo"],
       [text |-> <<107>>, prefix |-> "Kilo"],
       [text |-> <<99>>, prefix |-> "Centi"],
       [text |-> <<109>>, prefix |-> "Milli"],
       [text |-> <<>>, prefix |-> "None"] >>

SiPrefix_from_start_of_str(s) ==
    LET hits == { i \in DOMAIN SiPrefixes : starts_with(s, SiPrefixes[i].text) }
        i    == CHOOSE h \in hits : \A k \in hits : h <= k
    IN  [prefix |-> SiPrefixes[i].prefix, len |-> Len(SiPrefixes[i].text)]

\* the match over one candidate
StaticUnitTable(s, prefix) ==
    CASE s \in {<<109>>, <<109, 101, 116, 101, 114>>}  -> SomeOpt(Distance("Meter", prefix))
      [] s \in {<<105, 110>>, <<105, 110, 99, 104>>}  -> SomeOpt(Distance("Inch", "None"))
      [] s \in {<<102, 116>>, <<102, 101, 101, 116>>}  -> SomeOpt(Distance("Feet", "None"))
      [] s \in {<<103>>, <<103, 114, 97, 109>>}   -> SomeOpt(Mass("Gram", prefix))
      [] OTHER -> NoneOpt

static_unit_from_str(s) ==
    LET p      == SiPrefix_from_start_of_str(s)
        whole  == StaticUnitTable(s, "None")
        suffix == StaticUnitTable(SubSeq(s, p.len + 1, Len(s)), p.prefix)
    IN  IF whole.some THEN whole ELSE suffix

\* the currencies the rates were loaded for
CURRENCY_CODES == {<<117, 115, 100>>, <<101, 117, 114>>}

currency(name_or_code) ==
    IF name_or_code \in CURRENCY_CODES THEN SomeOpt(name_or_code) ELSE NoneOpt

Unit_from_str(s) ==
    IF static_unit_from_str(s).some THEN static_unit_from_str(s)
    ELSE IF currency(s).some THEN SomeOpt(Currency(currency(s).value))
    ELSE NoneOpt

valid_conversion_Always(a, b) == TRUE

valid_conversion(a, b) == a.family = b.family

is_allowed_unit_Always(dynamic, unit) == TRUE

is_allowed_unit(dynamic, unit) ==
    IF ~dynamic /\ unit.family = "Currency" THEN FALSE ELSE TRUE

\* ---- Content and the classifier's results ----
LeadExpression(r)         == [tag |-> "LeadExpression", result |-> r]
BasicExpression(x)        == [tag |-> "BasicExpression", value |-> x]
DefaultConversion(n, u)   == [tag |-> "DefaultConversion", num |-> n, unit |-> u]
Conversion(n, a, b)       == [tag |-> "Conversion", num |-> n, from |-> a, to |-> b]
Path    == [tag |-> "Path"]
URL     == [tag |-> "URL"]
Command == [tag |-> "Command"]

\* Result<Option<Content>, ClassificationError>
OkNone     == [status |-> "None"]
OkSome(c)  == [status |-> "Some", content |-> c]
Err(e)     == [status |-> "Err", error |-> e]

TokenAt(tokens, i) ==      \* tokens.get(i), i counted from 0
    IF i + 1 \in DOMAIN tokens THEN SomeOpt(tokens[i + 1]) ELSE NoneOpt

IsTextAt(tokens, i) ==
    TokenAt(tokens, i).some /\ TokenAt(tokens, i).value.type = "Text"

IsSymbolAt(tokens, i, c) ==
    /\ TokenAt(tokens, i).some
    /\ TokenAt(tokens, i).value.type = "Symbol"
    /\ TokenAt(tokens, i).value.char = c

IsNumberAt(tokens, i) ==
    TokenAt(tokens, i).some /\ TokenAt(tokens, i).value.type = "Number"

\* the unit and the index after the call
get_unit(tokens, index) ==
    IF IsTextAt(tokens, index) /\ Unit_from_str(tokens[index + 1].text).some
    THEN [unit |-> Unit_from_str(tokens[index + 1].text), index |-> index + 1]
    ELSE [unit |-> NoneOpt, index |-> index]

ConversionWords == {<<116, 111>>, <<105, 110>>, <<97, 115>>}

B2N(b) == IF b THEN 1 ELSE 0

\* classify_unchecked from the two units on: the errors, the token count and
\* the result
units_result(tokens, no_number, num, unit_a, unit_b, potentially_have_unit_b, have_conversion_word) ==
    LET potentially_have_unit_a == IsTextAt(tokens, 1)
        expected_token_count ==
            B2N(~no_number) + B2N(unit_a.some) + B2N(unit_b.some)
                + B2N(have_conversion_word)
    IN  IF ~unit_a.some /\ potentially_have_unit_a /\ ~unit_b.some
        THEN Err("InvalidUnit")
        ELSE IF unit_a.some /\ ~unit_b.some /\ potentially_have_unit_b
                  /\ ~have_conversion_word
        THEN Err("InvalidToUnit")
        ELSE IF Len(tokens) # expected_token_count THEN OkNone
        ELSE IF unit_b.some THEN OkSome(Conversion(num, unit_a, unit_b.value))
        ELSE IF unit_a.some
        THEN IF have_conversion_word THEN Err("MissingToUnit")
             ELSE OkSome(DefaultConversion(num, unit_a.value))
        ELSE IF IsSymbolAt(tokens, 1, 39)
        THEN IF IsNumberAt(tokens, 2) /\ IsSymbolAt(tokens, 3, 34)
             THEN OkSome(DefaultConversion(num * 12 + tokens[3].num,
                                           Distance("Inch", "None")))
             ELSE OkSome(DefaultConversion(num, Distance("Feet", "None")))
        ELSE OkNone

\* classify_unchecked from unit_b on; a is what get_unit gave for unit_a
units_after_a(tokens, no_number, num, a) ==
    IF IsTextAt(tokens, a.index)
         /\ tokens[a.index + 1].text \in ConversionWords
    THEN IF tokens[a.index + 1].text = <<105, 110>>
              /\ Len(tokens) = a.index + 1
         THEN units_result(tokens, no_number, num, a.unit,
                           SomeOpt(Distance("Inch", "None")), FALSE, FALSE)
         ELSE units_result(tokens, no_number, num, a.unit,
                           get_unit(tokens, a.index + 1).unit, TRUE, TRUE)
    ELSE IF IsTextAt(tokens, a.index)
    THEN units_result(tokens, no_number, num, a.unit,
                      Unit_from_str(tokens[a.index + 1].text), FALSE, FALSE)
    ELSE units_result(tokens, no_number, num, a.unit, NoneOpt, FALSE, FALSE)

\* classify_unchecked from the tokens on: the number and unit_a
units_from_tokens(tokens) ==
    IF IsNumberAt(tokens, 0)
    THEN units_after_a(tokens, FALSE, tokens[1].num, get_unit(tokens, 1))
    ELSE units_after_a(tokens, TRUE, 1000, get_unit(tokens, 0))

\* classify_unchecked from the lexer on
parse_units(s) == units_from_tokens(lex(s))

\* fs::metadata(s).is_ok()
metadata_is_ok(fs, s) == s \in fs

classify_unchecked_UrlBeforePath(mode, fs, text) ==
    LET s == trim(text)
    IN  IF s = <<>> THEN OkNone
        ELSE IF s[1] = 61 THEN OkSome(LeadExpression(eval_str(trim(Tail(s)))))
        ELSE IF s[1] = 36 THEN OkSome(Command)
        ELSE IF is_url(mode, s) THEN OkSome(URL)
        ELSE IF metadata_is_ok(fs, s) THEN OkSome(Path)
        ELSE IF consider_for_basic_expression(s) /\ eval_str(s).ok
             THEN OkSome(BasicExpression(eval_str(s).value))
        ELSE parse_units(s)

classify_unchecked(mode, fs, text) ==
    LET s == trim(text)
    IN  IF s = <<>> THEN OkNone
        ELSE IF s[1] = 61 THEN OkSome(LeadExpression(eval_str(trim(Tail(s)))))
        ELSE IF s[1] = 36 THEN OkSome(Command)
        ELSE IF metadata_is_ok(fs, s) THEN OkSome(Path)
        ELSE IF is_url(mode, s) THEN OkSome(URL)
        ELSE IF consider_for_basic_expression(s) /\ eval_str(s).ok
             THEN OkSome(BasicExpression(eval_str(s).value))
        ELSE parse_units(s)

\* the match of classify over the result of classify_unchecked
checked_LeadErrNoContent(result, dynamic) ==
    IF result.status = "Some" /\ result.content.tag = "LeadExpression"
         /\ ~result.content.result.ok
    THEN OkNone
    ELSE result

checked(result, dynamic) ==
    IF result.status = "Some" /\ result.content.tag = "DefaultConversion"
    THEN IF is_allowed_unit(dynamic, result.content.unit) THEN result
         ELSE OkNone
    ELSE IF result.status = "Some" /\ result.content.tag = "Conversion"
    THEN IF result.content.from.some
              /\ ~is_allowed_unit(dynamic, result.content.from.value)
         THEN OkNone
         ELSE IF result.content.from.some
                   /\ ~valid_conversion(result.content.from.value,
                                        result.content.to)
         THEN Err("InvalidConversion")
         ELSE IF ~is_allowed_unit(dynamic, result.content.to) THEN OkNone
         ELSE result
    ELSE result

classify(mode, dynamic, fs, s) ==
    checked(classify_unchecked(mode, fs, s), dynamic)

\* ---- inputs ----
InputPool ==
    { <<>>,   \* ""
      <<32>>,   \* " "
      <<61>>,   \* "="
      <<61, 32, 49, 43, 50>>,   \* "= 1+2"
      <<61, 49, 43>>,   \* "=1+"
      <<32, 61, 97, 46, 98>>,   \* " =a.b"
      <<61, 36, 108, 115>>,   \* "=$ls"
      <<61, 32, 110, 111, 32, 115, 117, 109>>,   \* "= no sum"
      <<36, 108, 115>>,   \* "$ls"
      <<36>>,   \* "$"
      <<36, 97, 46, 98>>,   \* "$a.b"
      <<36, 32, 61, 49>>,   \* "$ =1"
      <<47>>,   \* "/"
      <<97, 46, 98>>,   \* "a.b"
      <<104, 116, 116, 112, 58, 47, 47, 97, 46, 98>>,   \* "http://a.b"
      <<104, 116, 116, 112, 115, 58, 47, 47, 119, 119, 119, 46, 97, 46, 98, 99, 47, 100>>,   \* "https://www.a.bc/d"
      <<49, 43, 50>>,   \* "1+2"
      <<49, 46, 53, 43, 50>>,   \* "1.5+2"
      <<32, 49, 32, 43, 32, 50, 32>>,   \* " 1 + 2 "
      <<49, 50, 51>>,   \* "123"
      <<49, 50, 99, 109>>,   \* "12cm"
      <<49, 50, 32, 99, 109, 32, 116, 111, 32, 105, 110, 99, 104>>,   \* "12 cm to inch"
      <<49, 50, 99, 109, 32, 116, 111>>,   \* "12cm to"
      <<49, 50, 120, 121, 122>>,   \* "12xyz"
      <<115, 104, 117, 116, 100, 111, 119, 110, 32, 110, 111, 119>>,   \* "shutdown now"
      <<53, 39>>,   \* "5'"
      <<53, 39, 52, 34>>,   \* "5'4""
      <<49, 50, 117, 115, 100>>,   \* "12usd"
      <<108, 115>>,   \* "ls"
      <<49, 50, 32, 99, 109, 32, 105, 110, 32, 117, 115, 100>>,   \* "12 cm in usd"
      <<49, 95, 48, 48, 48, 109>>,   \* "1_000m"
      <<49, 50, 105, 110>>,   \* "12in"
      <<49, 50, 99, 109, 32, 116, 111, 32, 120, 121, 122>>,   \* "12cm to xyz"
      <<49, 50, 32, 116, 111>>,   \* "12 to"
      <<49, 50, 32, 116, 111, 32, 120, 121, 122>>,   \* "12 to xyz"
      <<49, 50, 99, 109, 32, 97, 115>>,   \* "12cm as"
      <<49, 50, 99, 109, 32, 120, 121, 122>>,   \* "12cm xyz"
      <<49, 105, 110, 99, 104, 32, 116, 111, 32, 99, 101, 110, 116, 109, 101, 116, 101, 114>>,   \* "1inch to centmeter"
      <<49, 50, 117, 115, 100, 32, 116, 111, 32, 99, 109>>,   \* "12usd to cm"
      <<49, 50, 117, 115, 100, 32, 116, 111, 32, 101, 117, 114>>,   \* "12usd to eur"
      <<49, 50, 32, 116, 111, 32, 117, 115, 100>>,   \* "12 to usd"
      <<49, 50, 117, 115, 100, 32, 116, 111>>,   \* "12usd to"
      <<117, 115, 100>>,   \* "usd"
      <<49, 50, 99, 109, 32, 116, 111, 32, 103>>,   \* "12cm to g"
      <<49, 50, 32, 116, 111, 32, 99, 109>>,   \* "12 to cm"
      <<49, 50, 103>>,   \* "12g"
      <<49, 44, 48, 48, 48, 46, 53>>,   \* "1,000.5"
      <<49, 44, 53>>,   \* "1,5"
      <<49, 44, 53, 99, 109>>,   \* "1,5cm"
      <<49, 46, 48, 48, 48, 44, 53, 99, 109>>,   \* "1.000,5cm"
      <<49, 50, 39>>,   \* "12'"
      <<48, 39>>    \* "0'"
    }

\* what exists in the working directory
Filesystems ==
    { {},
      {<<47>>},
      {<<47>>, <<97, 46, 98>>, <<49, 43, 50>>, <<61, 49, 43, 50>>, <<36, 108, 115>>, <<49, 50, 99, 109>>, <<108, 115>>} }

NotClassified == [status |-> "NotCalled"]

\* ContentOptions::default
ContentIdleInit ==
    /\ input = <<>>
    /\ url_mode = "Loose"
    /\ dynamic_conversions = TRUE
    /\ existing = {}
    /\ classified = NotClassified
    /\ lexed = NoneOpt
    /\ cpc = "idle"

ContentInit ==
    /\ input \in InputPool
    /\ url_mode \in UrlModes
    /\ dynamic_conversions \in BOOLEAN
    /\ existing \in Filesystems
    /\ classified = NotClassified
    /\ lexed = NoneOpt
    /\ cpc = "called"

\* one of the checks before the lexer returns
returns_early(mode, fs, s) ==
    \/ s = <<>>
    \/ s[1] \in {61, 36}
    \/ metadata_is_ok(fs, s)
    \/ is_url(mode, s)
    \/ consider_for_basic_expression(s) /\ eval_str(s).ok

Classify ==
    /\ cpc = "called"
    /\ classified' = classify(url_mode, dynamic_conversions, existing, input)
    /\ lexed' = IF returns_early(url_mode, existing, trim(input)) THEN NoneOpt
                ELSE SomeOpt(lex(trim(input)))
    /\ cpc' = "returned"
    /\ UNCHANGED <<input, url_mode, dynamic_conversions, existing>>
    /\ UNCHANGED <<searchVars, sortVars, historyVars, findVars, appVars, cacheVars>>

ContentNext == Classify

(***************************************************************************)
(* App: smart content and the handler of a changed search text (app.rs)     *)
(***************************************************************************)
\* ReadyContent
Expression(value)               == [tag |-> "Expression", value |-> value]
ReadyError(message)             == [tag |-> "Error", message |-> message]
ReadyConversion(value, from, to) ==
    [tag |-> "Conversion", value |-> value, from |-> from, to |-> to]
Action(action, label, text)     ==
    [tag |-> "Action", action |-> action, label |-> label, text |-> text]

\* rate() of the units in use, in tenths of a millimetre and in milligrams
rate(u) ==
    LET num == CASE u.prefix = "Kilo"  -> 1000000
                 [] u.prefix = "Centi" -> 10
                 [] u.prefix = "Milli" -> 1
                 [] OTHER              -> 1000
    IN  CASE u.unit = "Inch" -> 254
          [] u.unit = "Feet" -> 3048
          [] u.family = "Distance" -> num * 10
          [] OTHER -> num

\* units of the default currency per unit of a currency, in hundredths
CurrencyRate(code) == IF code = <<117, 115, 100>> THEN 100 ELSE 108

convert(value, from, to) ==
    IF from.family # to.family THEN 0
    ELSE IF from.family = "Currency"
         THEN (value * CurrencyRate(to.unit)) \div CurrencyRate(from.unit)
    ELSE (value * rate(from)) \div rate(to)

\* App.default_unit_mapping over the units in use
default_unit_mapping(u) ==
    CASE u = Distance("Inch", "None")   -> SomeOpt(Distance("Meter", "Centi"))
      [] u = Distance("Meter", "Centi") -> SomeOpt(Distance("Inch", "None"))
      [] u = Distance("Feet", "None")   -> SomeOpt(Distance("Meter", "None"))
      [] u = Distance("Meter", "None")  -> SomeOpt(Distance("Feet", "None"))
      [] u = Distance("Meter", "Milli") -> SomeOpt(Distance("Inch", "None"))
      [] OTHER -> NoneOpt

process_smart_content(result, s) ==
    IF result.status = "None" THEN NoneOpt
    ELSE IF result.status = "Err" THEN SomeOpt(ReadyError(result.error))
    ELSE LET c == result.content
         IN  CASE c.tag = "BasicExpression" -> SomeOpt(Expression(c.value))
               [] c.tag = "LeadExpression" ->
                    IF c.result.ok THEN SomeOpt(Expression(c.result.value))
                    ELSE SomeOpt(ReadyError("meval"))
               [] c.tag = "DefaultConversion" ->
                    IF default_unit_mapping(c.unit).some
                    THEN LET to == default_unit_mapping(c.unit).value
                         IN  SomeOpt(ReadyConversion(convert(c.num, c.unit, to),
                                                     c.unit, to))
                    ELSE SomeOpt(ReadyError("No default conversion"))
               [] c.tag = "Conversion" ->
                    LET from == IF c.from.some THEN c.from
                                ELSE default_unit_mapping(c.to)
                    IN  IF from.some
                        THEN SomeOpt(ReadyConversion(
                                 convert(c.num, from.value, c.to),
                                 from.value, c.to))
                        ELSE SomeOpt(ReadyError("No default conversion"))
               [] c.tag = "Path" -> SomeOpt(Action("Path", "Open", trim(Tail(s))))
               [] c.tag = "URL" -> SomeOpt(Action("Web", "Open", s))
               [] c.tag = "Command" -> SomeOpt(Action("Run", "Run", trim(Tail(s))))

\* the argument of Ui::set_smart_content for a text
SmartContentFor(text) ==
    process_smart_content(
        classify(url_mode, dynamic_conversions, existing, text), text)

\* --- inputs of the App ---
\* the texts the entry sends: "", "ab", "abc", "abcd", "$abc", "$ ", and with
\* a letter of two bytes "éb", "ébc"
TextPool ==
    { <<>>, <<97, 98>>, <<97, 98, 99>>, <<97, 98, 99, 100>>,
      <<36, 97, 98, 99>>, <<36, 32>>, <<233, 98>>, <<233, 98, 99>> }

\* the queries search() is called with
AppQueries == { to_lowercase(StripCommandSign(t)) : t \in TextPool } \ {<<>>}

\* jaro_winkler over the queries and the names of this cache and PATH: the
\* tables taken here give the names of the cache one similarity to every
\* query and the names of PATH another
AppSimTables(c) ==
    LET pnames == { to_lowercase(PathFileName(q)) : q \in Paths }
    IN  { [pr \in AppQueries \X (ValuesOf(c) \cup pnames) |->
             IF pr[2] \in pnames THEN t[2] ELSE t[1]] :
          t \in [1..2 -> {7000, 9000}] }

AppIdleInit ==
    /\ search_text = <<>>
    /\ search_results = <<>>
    /\ called = FALSE
    /\ produced = [query |-> <<>>, results |-> <<>>]
    /\ smart_content = Expression(0)
    /\ showing_smart_content = FALSE
    /\ ui_items = entries
    /\ last_text = <<>>
    /\ launched = NoneOpt
    /\ apc = "running"

\* the persisted histories the App is started with: none, and two that name
\* entries of the cache and an executable
AppStoredFiles ==
    { [state |-> "missing", data |-> <<>>],
      [state |-> "ok", data |-> <<Entry_DesktopEntry(file_name(1))>>],
      [state |-> "ok", data |-> <<Entry_Path(1), Entry_DesktopEntry(file_name(0))>>] }

\* App::new, the cache main has built, and the start of App::run:
\* `if !self.history.is_empty() { self.ui.set_items(self.history.entries(), "") }`
AppInit ==
    /\ cache \in Caches
    /\ sim_table \in AppSimTables(cache)
    /\ search_name = <<>>
    /\ previous = NoPrevious
    /\ matches = <<>>
    /\ sent = <<>>
    /\ fpc = "idle"
    /\ \E file \in AppStoredFiles :
         LET h == load(file, MaxSize)
         IN  /\ entries = h.entries
             /\ desktop_ids = h.desktop_ids
             /\ next_score = h.next_score
             /\ max_size = h.max_size
    /\ stored = [state |-> "missing", data |-> <<>>]
    /\ hstate = "ok"
    /\ AppIdleInit

\* Ui::set_smart_content: Some sets and shows the content, None hides it
set_smart_content(content) ==
    /\ smart_content' = IF content.some THEN content.value ELSE smart_content
    /\ showing_smart_content' = content.some

\* Ui::showing_useful_smart_content, with SmartContent::is_useful
showing_useful_smart_content ==
    showing_smart_content /\ smart_content.tag # "Error"

\* ReadyContent::commit of a content that is not an Error
ReadyContent_commit(content) ==
    IF content.tag = "Action"
      THEN [kind |-> content.action, id |-> content.text]
      ELSE [kind |-> "Copy", id |-> content.value]

\* Signal::SearchTextChanged(text)
SearchTextChanged(text) ==
    /\ apc = "running"
    /\ last_text' = text
    /\ UNCHANGED <<launched, apc>>
    /\ IF text = search_text
         THEN /\ called' = FALSE
              /\ UNCHANGED <<search_text, search_results, produced, smart_content,
                             showing_smart_content, ui_items, findVars>>
              /\ UNCHANGED <<searchVars, sortVars, historyVars, contentVars, cacheVars>>
         ELSE LET t == StripCommandSign(text)
              IN  IF t = <<>>
                    THEN /\ set_smart_content(SmartContentFor(text))
                         /\ search_text' = <<>>
                         /\ search_results' = <<>>
                         /\ ui_items' = entries
                         /\ called' = FALSE
                         /\ UNCHANGED <<produced, findVars>>
                         /\ UNCHANGED <<searchVars, sortVars, historyVars, contentVars, cacheVars>>
                    ELSE /\ set_smart_content(SmartContentFor(text))
                         /\ search_name' = t
                         /\ previous' = IF UsePrevious(t)
                                          THEN SomePrevious(search_results)
                                          ELSE NoPrevious
                         /\ matches' = desktop_matches(to_lowercase(t), previous')
                         /\ sent' = [i \in DOMAIN matches' |-> SentFor(matches'[i])]
                         /\ fpc' = "done"
                         /\ \E a \in Interleavings(sent',
                                      search_path(to_lowercase(t), DirOrder)) :
                              search_results' = sort_search_results(a, desktop_ids)
                         /\ ui_items' = search_results'
                         /\ search_text' = t
                         /\ called' = TRUE
                         /\ produced' = [query |-> t, results |-> search_results']
                         /\ UNCHANGED <<cache, sim_table>>
                         /\ UNCHANGED <<searchVars, sortVars, historyVars, contentVars, cacheVars>>

\* what a launch starts: the executable or the desktop entry of a result
Launch(kind, id) == [kind |-> kind, id |-> id]

\* App::get_exec indexes past the end of the list it reads, or unwraps the
\* None of find_file; positions count from 1 here
get_exec_panics(id) ==
    IF search_results # <<>> THEN id \notin DOMAIN search_results
    ELSE IF entries # <<>> /\ search_text = <<>>
      THEN \/ id \notin DOMAIN entries
           \/ entries[id].kind = "DesktopEntry" /\ find_file(entries[id].key) = None
    ELSE FALSE

\* App::get_exec, where it returns
get_exec(id) ==
    IF search_results # <<>>
      THEN SomeOpt(Launch(search_results[id].kind, search_results[id].id))
    ELSE IF entries # <<>> /\ search_text = <<>>
      THEN IF entries[id].kind = "Path"
             THEN SomeOpt(Launch("path", entries[id].key))
             ELSE SomeOpt(Launch("desktop", find_file(entries[id].key)))
    ELSE NoneOpt

\* Signal::Commit(id): id is None from the entry and the selected position
\* (counted from 1 here) from the list view
Commit(id) ==
    /\ apc = "running"
    /\ called' = FALSE
    /\ LET sel == IF id # None THEN id
                  ELSE IF showing_useful_smart_content THEN None ELSE 1
       IN  IF sel = None
             THEN /\ launched' = SomeOpt(ReadyContent_commit(smart_content))
                  /\ smart_content' = Expression(0)
                  /\ apc' = "returned"
                  /\ UNCHANGED historyVars
           ELSE IF get_exec_panics(sel)
             THEN /\ apc' = "panicked"
                  /\ UNCHANGED <<launched, smart_content, historyVars>>
           ELSE IF ~get_exec(sel).some
             THEN /\ apc' = "returned"
                  /\ UNCHANGED <<launched, smart_content, historyVars>>
           ELSE /\ launched' = get_exec(sel)
                /\ apc' = "returned"
                /\ IF search_results = <<>>
                     \* History::renew(id)
                     THEN /\ entries' = <<entries[sel]>> \o RemoveAt(entries, sel)
                          /\ UNCHANGED <<desktop_ids, next_score>>
                     \* History::add(search_results[id].unwrap(), cache)
                     ELSE LET result == search_results[sel]
                          IN  /\ entries' = <<EntryOf(result)>>
                                   \o DropOldest(RemoveFirst(entries, EntryOf(result)),
                                                 max_size)
                              /\ IF result.kind = "desktop"
                                   THEN /\ desktop_ids' =
                                             [k \in DOMAIN desktop_ids \cup {result.id} |->
                                                IF k = result.id THEN next_score
                                                ELSE desktop_ids[k]]
                                        /\ next_score' = next_score + 1
                                   ELSE UNCHANGED <<desktop_ids, next_score>>
                /\ UNCHANGED <<smart_content, max_size, stored, hstate>>
    /\ UNCHANGED <<search_text, search_results, produced, showing_smart_content,
                   ui_items, last_text>>
    /\ UNCHANGED <<searchVars, sortVars, findVars, contentVars, cacheVars>>

\* Signal::DeleteEntry(id): id is the selected position of the list view,
\* counted from 1 here
DeleteEntry(id) ==
    /\ apc = "running"
    /\ called' = FALSE
    /\ IF search_results = <<>> /\ search_text = <<>>
         \* History::delete(id, cache)
         THEN IF id \notin DOMAIN entries
                THEN /\ apc' = "panicked"
                     /\ UNCHANGED <<entries, desktop_ids>>
                ELSE /\ entries' = RemoveAt(entries, id)
                     /\ IF entries[id].kind = "DesktopEntry"
                          THEN LET cid == find_file(entries[id].key)
                               IN  IF cid # None /\ cid \in DOMAIN desktop_ids
                                     THEN /\ desktop_ids' =
                                               [k \in DOMAIN desktop_ids \ {cid} |->
                                                  desktop_ids[k]]
                                          /\ apc' = "running"
                                     ELSE /\ desktop_ids' = desktop_ids
                                          /\ apc' = "panicked"
                          ELSE UNCHANGED <<desktop_ids, apc>>
         ELSE UNCHANGED <<entries, desktop_ids, apc>>
    /\ ui_items' = IF apc' = "panicked" THEN ui_items ELSE entries'
    /\ UNCHANGED <<next_score, max_size, stored, hstate>>
    /\ UNCHANGED <<search_text, search_results, produced, smart_content,
                   showing_smart_content, last_text, launched>>
    /\ UNCHANGED <<searchVars, sortVars, findVars, contentVars, cacheVars>>

\* the signals the entry and the list view send: the list view sends the
\* position it has selected, and DeleteEntry only when it shows an item
AppNext ==
    \/ \E text \in TextPool : SearchTextChanged(text)
    \/ \E id \in {None} \cup DOMAIN ui_items : Commit(id)
    \/ \E id \in DOMAIN ui_items : DeleteEntry(id)

(***************************************************************************)
(* Desktop entry cache: DesktopEntryCache::rebuild                          *)
(***************************************************************************)
\* a file of a directory: its name, and whether rebuild makes an entry of
\* it (it ends with .desktop, can be read and decoded, and has an Exec)
File(name, usable) == [file_name |-> name, usable |-> usable]

\* the files in use: two .desktop files and one that is skipped
FilePool == { File(file_name(0), TRUE), File(file_name(1), TRUE), File(file_name(2), FALSE) }

\* what read_dir gives for a directory: an error, or its files in some order
DirPool ==
    { [readable |-> FALSE, files |-> <<>>] }
      \cup { [readable |-> TRUE, files |-> fs] :
              fs \in { q \in UNION { [1..n -> FilePool] : n \in 0..2 } :
                        \A i, j \in DOMAIN q : q[i] = q[j] => i = j } }

\* the body of `for file in dir.unwrap().flatten()`: the entries pushed
Indexed(dir) ==
    LET kept == SelectSeq(dir.files, LAMBDA f : f.usable)
    IN  [i \in DOMAIN kept |-> kept[i].file_name]

\* `for data_dir in data_dirs`: an unreadable directory sets the error and
\* is skipped, a readable one clears the error and is indexed
RECURSIVE ScanDirs(_, _, _)
ScanDirs(dirs, es, err) ==
    IF dirs = <<>> THEN [entries |-> es, error |-> err]
    ELSE IF ~Head(dirs).readable
      THEN ScanDirs(Tail(dirs), es, SomeOpt("io"))
      ELSE ScanDirs(Tail(dirs), es \o Indexed(Head(dirs)), NoneOpt)

\* `self.entries.retain(..)`: the first entry of each file name stays
Deduplicate(es) ==
    LET first(i) == \A j \in 1..(i - 1) : es[j] # es[i]
        keep == { i \in DOMAIN es : first(i) }
        RECURSIVE pick(_)
        pick(i) == IF i > Len(es) THEN <<>>
                   ELSE (IF i \in keep THEN <<es[i]>> ELSE <<>>) \o pick(i + 1)
    IN  pick(1)

\* DesktopEntryCache::rebuild: the entries and the error it leaves
rebuild(dirs, err) ==
    LET scanned == ScanDirs(dirs, <<>>, err)
    IN  [entries |-> Deduplicate(scanned.entries), error |-> scanned.error]

CacheIdleInit ==
    /\ data_dirs = <<[readable |-> TRUE, files |-> <<>>]>>
    /\ cache_entries = <<>>
    /\ cache_error = NoneOpt
    /\ rpc = "done"

\* main, after DesktopEntryCache::new: XDG_DATA_DIRS names at least one
\* directory
CacheInit ==
    /\ data_dirs \in UNION { [1..n -> DirPool] : n \in 1..MaxDirs }
    /\ cache_entries = <<>>
    /\ cache_error = NoneOpt
    /\ rpc = "start"

\* main: cache.rebuild()
Rebuild ==
    /\ rpc = "start"
    /\ cache_entries' = rebuild(data_dirs, cache_error).entries
    /\ cache_error' = rebuild(data_dirs, cache_error).error
    /\ rpc' = "done"
    /\ UNCHANGED data_dirs
    /\ UNCHANGED <<searchVars, sortVars, historyVars, findVars, appVars, contentVars>>

CacheNext == Rebuild

(***************************************************************************)
(* Specifications                                                           *)
(***************************************************************************)
\* one call of search()
SearchSpecInit == SearchInit /\ SortIdleInit /\ HistoryIdleInit /\ FindIdleInit /\ AppIdleInit /\ ContentIdleInit /\ CacheIdleInit
SearchSpec == SearchSpecInit /\ [][SearchNext]_vars

\* the same under the scheduler's fairness: the thread blocked in search()
\* runs when a message is there to receive
SearchFairSpec ==
    SearchSpec /\ WF_vars(SearchRecv) /\ WF_vars(SearchReturn)

\* the ranker applied to the results of one search
SortSpecInit == SortInit /\ SearchIdleInit /\ HistoryIdleInit /\ FindIdleInit /\ AppIdleInit /\ ContentIdleInit /\ CacheIdleInit
SortSpec == SortSpecInit /\ [][SortNext]_vars

\* a History from its load on
HistorySpecInit == HistoryInit /\ SearchIdleInit /\ SortIdleInit /\ FindIdleInit /\ AppIdleInit /\ ContentIdleInit /\ CacheIdleInit
HistorySpec == HistorySpecInit /\ [][HistoryNext]_vars

\* History::load over a persisted file
LoadSpecInit == LoadInit /\ SearchIdleInit /\ SortIdleInit /\ FindIdleInit /\ AppIdleInit /\ ContentIdleInit /\ CacheIdleInit
LoadSpec == LoadSpecInit /\ [][LoadNext]_vars

\* one run of search_desktop_entries over a cache
FindSpecInit == FindInit /\ SearchIdleInit /\ SortIdleInit /\ HistoryIdleInit /\ AppIdleInit /\ ContentIdleInit /\ CacheIdleInit
FindSpec == FindSpecInit /\ [][FindNext]_vars

\* the App handling the texts typed into its entry
AppSpecInit == AppInit /\ SearchIdleInit /\ SortIdleInit /\ ContentIdleInit /\ CacheIdleInit
AppSpec == AppSpecInit /\ [][AppNext]_vars

\* one call of ContentClassifier::classify
ContentSpecInit == ContentInit /\ SearchIdleInit /\ SortIdleInit /\ HistoryIdleInit /\ FindIdleInit /\ AppIdleInit /\ CacheIdleInit
ContentSpec == ContentSpecInit /\ [][ContentNext]_vars

\* main's one call of DesktopEntryCache::rebuild
CacheSpecInit == CacheInit /\ SearchIdleInit /\ SortIdleInit /\ HistoryIdleInit /\ FindIdleInit /\ AppIdleInit /\ ContentIdleInit
CacheSpec == CacheSpecInit /\ [][CacheNext]_vars

(***************************************************************************)
(* Properties                                                               *)
(***************************************************************************)
SentResults(m)   == SelectSeq(sentLog[m], LAMBDA x : x.some)
SentSentinels(m) == SelectSeq(sentLog[m], LAMBDA x : ~x.some)
Occurrences(q, x) == Cardinality({ i \in DOMAIN q : q[i] = x })

\* C1: search returns only after each launched matcher's sentinel has been
\* sent and received, and the list it returns holds every result message
\* either matcher sent exactly once: none is lost, none is duplicated and
\* none is left in the channel.
C1_SearchCollectsEveryResult ==
    spc = "returned" =>
        /\ \A m \in Matchers : Len(SentSentinels(m)) = 1
        /\ chan = <<>>
        /\ Len(results) = Len(SentResults("path")) + Len(SentResults("desktop"))
        /\ \A m \in Matchers : \A i \in DOMAIN SentResults(m) :
               Occurrences(results, SentResults(m)[i]) = 1

\* search has returned results of both matchers, a desktop match having
\* arrived before a path match
C1_Witness ==
    /\ spc = "returned"
    /\ \E i, j \in DOMAIN results :
          i < j /\ results[i].from = "desktop" /\ results[j].from = "path"

\* the sentinel is the last message a matcher sends, and a matcher that has
\* run to its end has sent all its results and one sentinel
SentinelProtocol(m) ==
    /\ \A i \in DOMAIN sentLog[m] : ~sentLog[m][i].some => i = Len(sentLog[m])
    /\ SentSentinels(m) # <<>> => todo[m] = 0
    /\ mpc[m] = "done" => Len(SentSentinels(m)) = 1

\* C2: a matcher sends its sentinel once and after all of its own result
\* messages, and once both matchers have sent their sentinel the blocked
\* search call eventually returns.
C2_SentinelLastThenSearchReturns ==
    /\ [](\A m \in Matchers : SentinelProtocol(m))
    /\ (\A m \in Matchers : SentSentinels(m) # <<>>) ~> (spc = "returned")

\* both matchers have sent all their results and then their sentinel, and
\* search has returned with running = 0
C2_Witness ==
    /\ spc = "returned"
    /\ running = 0
    /\ \A m \in Matchers : Len(sentLog[m]) = MaxMatches + 1 /\ mpc[m] = "done"

\* C3: a matcher that ends without sending its sentinel is fatal to that
\* search call only: search still returns and the caller is never left
\* blocked.  Stated on the blocked state: search is never waiting on an empty
\* channel when no matcher is left that could send.
C3_SearchNeverBlockedForever ==
    ~ ( /\ spc = "recv"
        /\ running # 0
        /\ chan = <<>>
        /\ \A m \in Matchers : mpc[m] \in {"done", "panicked"} )

\* C4: the ranked order does not depend on the order in which the matchers'
\* results arrived: sorting two arrival orders of the same results gives the
\* same sequence.
C4_RankingIgnoresArrivalOrder ==
    sortDone => sortedA = sortedB

Range(q) == { q[i] : i \in DOMAIN q }
Before(a, b) == compare(a, b) = "Less"

\* C5: the ranking comparison is a total order on the matches it sorts:
\* antisymmetric, and transitive (a before b and b before c implies a
\* before c).
C5_CompareIsTotalOrder ==
    sortDone =>
        \A a, b, c \in Range(sortedA) :
            /\ Before(a, b) <=> compare(b, a) = "Greater"
            /\ (Before(a, b) /\ Before(b, c)) => Before(a, c)

\* C6: the recency index and the sequence correspond one to one: an id is a
\* key of the index if and only if exactly one entry of the sequence refers
\* to that desktop entry.
C6_IndexMatchesSequence ==
    /\ DOMAIN desktop_ids \subseteq CacheIds
    /\ \A id \in CacheIds :
          id \in DOMAIN desktop_ids
            <=> Occurrences(entries, Entry_DesktopEntry(file_name(id))) = 1

\* C7: the sequence never holds more than max_size entries.
C7_HistoryCapped ==
    Len(entries) <= max_size

Without(q, e) == SelectSeq(q, LAMBDA y : y # e)

\* what C8 says of one step that is add(x)
AddPost(x) ==
    LET e      == EntryOf(x)
        before == Without(entries, e)
        after  == Without(entries', e)
    IN  /\ entries' # <<>>
        /\ entries'[1] = e
        /\ Occurrences(entries', e) = 1
        /\ \/ after = before
           \/ /\ before # <<>>
              /\ after = SubSeq(before, 1, Len(before) - 1)
              /\ Len(entries) >= max_size
              /\ Occurrences(entries, e) = 0

\* C8: after add(X), X is at the front and occurs once, the other retained
\* entries keep their order, and an entry is evicted only when the history
\* was full and X was not already present, the evicted entry being the back.
C8_AddFrontOnceEvictsOldest ==
    [][\A x \in Results : add(x) => AddPost(x)]_vars

\* the recency rank of the desktop entry at position i
RankAt(i) == desktop_ids[find_file(entries[i].key)]

\* C9: every recency rank is at least 1, and of two desktop entries of the
\* sequence the one nearer the front has the strictly higher rank.
C9_RanksCountUpward ==
    /\ \A id \in DOMAIN desktop_ids : desktop_ids[id] >= 1
    /\ \A i, j \in DOMAIN entries :
          ( /\ i < j
            /\ entries[i].kind = "DesktopEntry"
            /\ entries[j].kind = "DesktopEntry"
            /\ find_file(entries[i].key) \in DOMAIN desktop_ids
            /\ find_file(entries[j].key) \in DOMAIN desktop_ids )
          => RankAt(i) > RankAt(j)

\* the result the ranker must make of the collected result r
Ranked(r, o) ==
    /\ o.kind = r.kind /\ o.id = r.id /\ o.name = r.name
    /\ IF r.kind = "desktop" /\ r.id \in DOMAIN hmap
         THEN o.score = r.score * 2 * hmap[r.id] /\ o.is_in_history
         ELSE o.score = r.score /\ ~o.is_in_history

\* C10: sort_search_results multiplies the score by 2 * recency_rank and sets
\* is_in_history for exactly the desktop-entry matches whose id is a key of
\* the recency map; every other result keeps its score and is_in_history =
\* false.
C10_BoostExactlyHistoryDesktop ==
    sortDone =>
        /\ Len(sortedA) = Len(arrival)
        /\ \A i \in DOMAIN arrival :
              \E j \in DOMAIN sortedA : Ranked(arrival[i], sortedA[j])

\* a sorted list holding a boosted desktop match, a desktop match that is not
\* in the map, and a path whose number is a key of the map
C10_Witness ==
    /\ sortDone
    /\ \E a, b, c \in Range(sortedA) :
          /\ a.kind = "desktop" /\ a.is_in_history /\ a.score > EXACT_BASE
          /\ b.kind = "desktop" /\ ~b.is_in_history
          /\ c.kind = "path" /\ c.id \in DOMAIN hmap /\ ~c.is_in_history

\* C11: after sort_search_results, every desktop-entry match whose id is in
\* the recency map with rank >= 2 stands before every match that is not in
\* the history, whatever the scores the two matched with.
C11_HistoryDominatesFuzzyScore ==
    sortDone =>
        \A i, j \in DOMAIN sortedA :
            ( /\ sortedA[i].kind = "desktop"
              /\ sortedA[i].id \in DOMAIN hmap
              /\ hmap[sortedA[i].id] >= 2
              /\ ~sortedA[j].is_in_history )
            => i < j

\* the weakest match (file name, similarity 0.75) of rank 2 arrived after
\* the strongest match that is not in the history (localized name, 0.999)
\* and was sorted before it
C11_Witness ==
    /\ sortDone
    /\ \E i, j \in DOMAIN arrival :
          /\ i < j
          /\ arrival[i].kind = "desktop" /\ arrival[i].id \notin DOMAIN hmap
          /\ arrival[i].score = Scale(9990, LOCALIZED_NAME_WEIGHT)
          /\ arrival[j].kind = "desktop" /\ arrival[j].id \in DOMAIN hmap
          /\ hmap[arrival[j].id] = 2
          /\ arrival[j].score = Scale(SIMILARITY_THRESHHOLD, FILE_NAME_WEIGHT)
    /\ sortedA[1].is_in_history

\* the place of a field in the order the claim C12 gives
ClaimedPlace(f) ==
    CASE f.field = "LocalizedName"        -> 1
      [] f.field = "Name"                 -> 2
      [] f.field = "LocalizedGenericName" -> 3
      [] f.field = "GenericName"          -> 4
      [] f.field = "FileName"             -> 5

WeightPlace(f) ==
    CASE f.field = "LocalizedName"        -> 1
      [] f.field = "LocalizedGenericName" -> 2
      [] f.field = "Name"                 -> 3
      [] f.field = "GenericName"          -> 4
      [] f.field = "FileName"             -> 5

FieldsInOrder(e) ==
    << [tag |-> "LocalizedName", opt |-> e.localized_name],
       [tag |-> "Name", opt |-> SomeStr(e.name)],
       [tag |-> "LocalizedGenericName", opt |-> e.localized_generic_name],
       [tag |-> "GenericName", opt |-> e.generic_name],
       [tag |-> "FileName", opt |-> SomeStr(e.file_name)] >>

\* the lowercased value of the field is equal to the query n or at least
\* 0.75 similar to it
FieldMatches(n, fld) ==
    /\ fld.opt.some
    /\ \/ to_lowercase(fld.opt.value) = n
       \/ sim_table[<<n, to_lowercase(fld.opt.value)>>] >= SIMILARITY_THRESHHOLD

\* the ids the run of search_desktop_entries scanned
ScannedIds ==
    IF previous.some
      THEN { previous.list[i].id :
             i \in { k \in DOMAIN previous.list : previous.list[k].kind = "desktop" } }
      ELSE { id - 1 : id \in DOMAIN cache }

\* C13: at most one Match is produced per scanned id, and its field tag is
\* the first field, in the order localized name, name, localized generic
\* name, generic name, file name, whose lowercased value matches the query;
\* later fields are not consulted.
C13_FirstMatchingFieldOnly ==
    fpc = "done" =>
        LET n == to_lowercase(search_name)
        IN  /\ \A id \in ScannedIds :
                  Cardinality({ i \in DOMAIN matches : matches[i].id = id }) <= 1
            /\ \A i \in DOMAIN matches :
                  LET fs == FieldsInOrder(cache[matches[i].id + 1])
                  IN  \E k \in DOMAIN fs :
                        /\ fs[k].tag = matches[i].field.field
                        /\ FieldMatches(n, fs[k])
                        /\ \A g \in 1..(k - 1) : ~FieldMatches(n, fs[g])

\* an entry matched on its localized name by similarity although its name
\* is equal to the query, and another matched on a field after the name
C13_Witness ==
    /\ fpc = "done"
    /\ \E i \in DOMAIN matches :
          /\ matches[i].field.field = "LocalizedName"
          /\ matches[i].field.inner.kind = "Similar"
          /\ to_lowercase(cache[matches[i].id + 1].name) = to_lowercase(search_name)
    /\ \E i \in DOMAIN matches :
          matches[i].field.field \in {"LocalizedGenericName", "GenericName", "FileName"}

\* the matches found for the cache entry id
MatchesOf(id) == SelectSeq(matches, LAMBDA m : m.id = id)

\* the entry's name is the query, letter case aside
NameIsQuery(id) == to_lowercase(cache[id + 1].name) = to_lowercase(search_name)

\* C14: for every entry whose name equals the query case-insensitively, the
\* result of find_all includes a match for that entry whose kind is Exact.
C14_NameEqualGivesExact ==
    (fpc = "done" /\ ~previous.some) =>
        \A id \in ScannedIds :
            NameIsQuery(id) =>
                \E i \in DOMAIN matches :
                    matches[i].id = id /\ matches[i].field.inner.kind = "Exact"

\* the entry has a localized name that is not the query but similar to it
LocalizedNameSimilar(id) ==
    LET ln == cache[id + 1].localized_name
        n  == to_lowercase(search_name)
    IN  /\ ln.some
        /\ to_lowercase(ln.value) # n
        /\ sim_table[<<n, to_lowercase(ln.value)>>] >= SIMILARITY_THRESHHOLD

\* C14, amended: for every entry whose name equals the query
\* case-insensitively, the result of find_all includes one match for that
\* entry; it is the Similar match on the localized name when the entry has a
\* localized name that differs from the query and is at least 0.75 similar
\* to it, and an Exact match otherwise.
C14_ExactUnlessLocalizedSimilar ==
    (fpc = "done" /\ ~previous.some) =>
        \A id \in ScannedIds :
            NameIsQuery(id) =>
                /\ Len(MatchesOf(id)) = 1
                /\ IF LocalizedNameSimilar(id)
                     THEN MatchesOf(id)[1].field =
                            MatchField("LocalizedName",
                              Similar(sim_table[<<to_lowercase(search_name),
                                to_lowercase(cache[id + 1].localized_name.value)>>]))
                     ELSE MatchesOf(id)[1].field.inner.kind = "Exact"

\* find_all for the query "A" over an entry named "A" whose localized name
\* is not similar enough, matched Exact on its name, and another entry named
\* "A" without a localized name
C14_Witness ==
    /\ fpc = "done" /\ ~previous.some
    /\ \E id \in ScannedIds :
          /\ NameIsQuery(id)
          /\ cache[id + 1].localized_name.some
          /\ ~LocalizedNameSimilar(id)
          /\ MatchesOf(id) = <<Match(id, MatchField("Name", Exact))>>
    /\ \E id \in ScannedIds :
          NameIsQuery(id) /\ ~cache[id + 1].localized_name.some

\* the bag of the elements of a sequence
BagOf(q) == [x \in Range(q) |-> Occurrences(q, x)]

\* C15: the subset search is the full search restricted to the given ids:
\* search_desktop_entries with Some(previous) finds exactly the matches of
\* find_all whose id is an id of a desktop match of previous, and sends no
\* desktop match for any other id.
C15_SubsetIsRestrictedFullSearch ==
    (fpc = "done" /\ previous.some) =>
        LET full == SelectSeq(find_all(to_lowercase(search_name)),
                              LAMBDA m : m.id \in ScannedIds)
        IN  /\ BagOf(matches) = BagOf(full)
            /\ \A i \in DOMAIN sent :
                  sent[i].kind = "desktop" /\ sent[i].id \in ScannedIds

\* a narrowed search that found an entry of previous, while the full search
\* finds an entry that is not in previous as well, and previous holds a path
\* match
C15_Witness ==
    /\ fpc = "done" /\ previous.some
    /\ matches # <<>>
    /\ \E m \in Range(find_all(to_lowercase(search_name))) : m.id \notin ScannedIds
    /\ \E i \in DOMAIN previous.list : previous.list[i].kind = "path"

\* the number of characters of a string
chars_count(v) == Len(v)

\* C16: the App passes a previous result set to search only when the stored
\* query has at least 3 characters and the new query starts with it, the
\* result set it passes being the one the search for that stored query
\* produced; every other search it runs is a full search (previous = None).
C16_PreviousOnlyForLongPrefix ==
    [][\A text \in TextPool :
         (SearchTextChanged(text) /\ called') =>
            /\ previous'.some <=>
                 ( /\ chars_count(search_text) >= 3
                   /\ starts_with(StripCommandSign(text), search_text) )
            /\ previous'.some =>
                 /\ produced.query = search_text
                 /\ previous'.list = produced.results]_vars

\* what C17 says of one step that is delete(p)
DeletePost(p) ==
    /\ hstate' = "ok"
    /\ Len(entries') = Len(entries) - 1
    /\ \A i \in DOMAIN entries :
          /\ i < p => entries'[i] = entries[i]
          /\ i > p => entries'[i - 1] = entries[i]
    /\ entries[p].kind = "DesktopEntry" =>
          find_file(entries[p].key) \notin DOMAIN desktop_ids'
    /\ \A i \in DOMAIN entries \ {p} :
          entries[i].kind = "DesktopEntry" =>
              /\ find_file(entries[i].key) \in DOMAIN desktop_ids'
              /\ desktop_ids'[find_file(entries[i].key)] = RankAt(i)
    /\ entries[p].kind = "Path" => desktop_ids' = desktop_ids

\* C17: for every valid position p, delete(p) does not panic, removes
\* exactly the entry at p from the sequence and, when it is a desktop entry,
\* its id from the recency index, and leaves every other entry, their order
\* and their ranks as they were.
C17_DeleteRemovesExactlyOne ==
    [][\A p \in DOMAIN entries : delete(p) => DeletePost(p)]_vars

\* a history loaded with two executables and then desktop entry 1, to
\* which desktop entry 0 was added and then deleted from the front: the
\* index has lost the id 0 and keeps the rank of desktop entry 1
C17_Witness ==
    /\ hstate = "ok"
    /\ entries = <<Entry_Path(1), Entry_Path(2), Entry_DesktopEntry(file_name(1))>>
    /\ next_score = 4
    /\ desktop_ids = [id \in {1} |-> 1]

\* C18: loading the persisted history never fails fatally: for a missing,
\* empty or unparseable file History::load returns an empty history,
\* otherwise the persisted entries that still resolve; it never panics.
C18_LoadNeverFatal ==
    hstate # "loading" =>
        /\ hstate = "ok"
        /\ stored.state \in {"missing", "empty", "corrupt"} =>
              entries = <<>> /\ desktop_ids = <<>>
        /\ stored.state = "ok" => entries = SelectSeq(stored.data, Resolves)

\* C19: whenever the trimmed input starts with '=', classify returns
\* Ok(Some(LeadExpression(r))) with r the result of evaluating the trimmed
\* text after the sign; a text that does not evaluate gives
\* LeadExpression(Err), not Ok(None) and not a ClassificationError.
C19_LeadSignGivesLeadExpression ==
    (cpc = "returned" /\ trim(input) # <<>> /\ trim(input)[1] = 61) =>
        /\ classified.status = "Some"
        /\ classified.content.tag = "LeadExpression"
        /\ classified.content.result = eval_str(trim(Tail(trim(input))))

\* "=1+" was classified: a lead expression holding the evaluation error
C19_Witness ==
    /\ cpc = "returned"
    /\ input = <<61, 49, 43>>
    /\ classified = OkSome(LeadExpression(EvalErr))

\* the checks of the claimed order, each taken alone, on the trimmed input
IsEmptyText  == trim(input) = <<>>
HasLeadSign  == ~IsEmptyText /\ trim(input)[1] = 61
HasShellSign == ~IsEmptyText /\ trim(input)[1] = 36
IsExistingPath == trim(input) \in existing
MatchesUrlPattern ==
    \/ url_mode = "Http" /\ HttpUrlMatch(trim(input))
    \/ url_mode = "Loose" /\ LooseUrlMatch(trim(input))
IsArithmetic ==
    /\ \E i \in DOMAIN trim(input) : ~IsDigit(trim(input)[i])
    /\ eval_str(trim(input)).ok
EarlyTags == {"LeadExpression", "Command", "Path", "URL", "BasicExpression"}

Toks == lexed.value
Parsed == cpc = "returned" /\ lexed.some
TokIsText(i)   == i \in DOMAIN Toks /\ Toks[i].type = "Text"
TokIsNumber(i) == i \in DOMAIN Toks /\ Toks[i].type = "Number"
TokIsChar(i, c) == i \in DOMAIN Toks /\ Toks[i].type = "Symbol" /\ Toks[i].char = c
TokIsUnit(i)    == TokIsText(i) /\ Unit_from_str(Toks[i].text).some
TokIsKeyword(i) == TokIsText(i) /\ Toks[i].text \in ConversionWords

\* plain words: only words, none of them a unit or a conversion keyword
PlainWords ==
    /\ Toks # <<>>
    /\ \A i \in DOMAIN Toks : TokIsText(i) /\ ~TokIsUnit(i) /\ ~TokIsKeyword(i)

\* C21: plain words without a leading number, none of them a unit or a
\* conversion keyword, classify as no content and never as an error;
\* InvalidUnit is returned only when a word follows a number and does not
\* resolve to a unit.
C21_PlainWordsNoContent ==
    Parsed =>
        /\ PlainWords => classified = OkNone
        /\ classified = Err("InvalidUnit") =>
               TokIsNumber(1) /\ TokIsText(2) /\ ~TokIsUnit(2)

\* a number, a source unit or none, and a conversion keyword at position k
\* that is not a bare trailing "in" and has no unit after it
KeywordWithoutUnit(k) ==
    /\ TokIsNumber(1)
    /\ k = 2 \/ (k = 3 /\ TokIsUnit(2))
    /\ TokIsKeyword(k)
    /\ ~(Toks[k].text = <<105, 110>> /\ Len(Toks) = k)
    /\ ~TokIsUnit(k + 1)

\* C22: a number, with or without a source unit, and then a conversion
\* keyword (other than a bare trailing "in") that no unit follows, whether
\* nothing or an unresolvable token follows it, gives the error MissingToUnit.
C22_KeywordWithoutUnitIsMissingToUnit ==
    (Parsed /\ \E k \in {2, 3} : KeywordWithoutUnit(k)) =>
        classified = Err("MissingToUnit")

\* a number, a resolved source unit and then a word that is no unit: either
\* directly, or after a conversion keyword as in "1inch to centmeter"
UnresolvedDestination ==
    /\ TokIsNumber(1)
    /\ TokIsUnit(2)
    /\ \/ Len(Toks) = 3 /\ TokIsText(3) /\ ~TokIsKeyword(3) /\ ~TokIsUnit(3)
       \/ Len(Toks) = 4 /\ TokIsKeyword(3) /\ TokIsText(4) /\ ~TokIsUnit(4)

\* C23: a number, a resolved source unit and then a token that should be the
\* destination unit but does not resolve gives the error InvalidToUnit.
C23_UnresolvedDestinationIsInvalidToUnit ==
    (Parsed /\ UnresolvedDestination) => classified = Err("InvalidToUnit")

\* C24: N' classifies as DefaultConversion(N, feet) and N'M" as
\* DefaultConversion(N*12+M, inch).
C24_FeetAndInches ==
    Parsed =>
        /\ (Len(Toks) = 2 /\ TokIsNumber(1) /\ TokIsChar(2, 39)) =>
               classified = OkSome(DefaultConversion(Toks[1].num,
                                                     Distance("Feet", "None")))
        /\ (Len(Toks) = 4 /\ TokIsNumber(1) /\ TokIsChar(2, 39)
                /\ TokIsNumber(3) /\ TokIsChar(4, 34)) =>
               classified = OkSome(DefaultConversion(
                                Toks[1].num * 12 + Toks[3].num,
                                Distance("Inch", "None")))

\* the result of the unit parse, before classify checks the units
Unchecked == classify_unchecked(url_mode, existing, input)
IsCurrency(u) == u.family = "Currency"
TokIsCurrency(i) == TokIsUnit(i) /\ IsCurrency(Unit_from_str(Toks[i].text).value)
HoldsCurrency(r) ==
    /\ r.status = "Some"
    /\ \/ r.content.tag = "DefaultConversion" /\ IsCurrency(r.content.unit)
       \/ /\ r.content.tag = "Conversion"
          /\ \/ IsCurrency(r.content.to)
             \/ r.content.from.some /\ IsCurrency(r.content.from.value)

\* the unit parse took a currency as the single unit, the source unit or the
\* destination unit
ResolvedCurrency ==
    /\ \A i \in DOMAIN Toks : TokIsNumber(i) => i = 1
    /\ \A i \in DOMAIN Toks : TokIsText(i) => TokIsUnit(i) \/ TokIsKeyword(i)
    /\ \E i \in DOMAIN Toks : TokIsCurrency(i)

\* C25: with dynamic conversions disabled, every input whose unit parse
\* resolved a currency unit classifies as no content: never a conversion
\* holding a currency and never an error.
C25_CurrencyIsNoContentWhenDisabled ==
    (Parsed /\ ~dynamic_conversions) =>
        /\ ~HoldsCurrency(classified)
        /\ ResolvedCurrency => classified = OkNone

\* C25 as the code has it: with dynamic conversions disabled classify never
\* returns a conversion holding a currency; a unit parse that ended in a
\* conversion holding a currency gives no content, except a conversion from
\* a unit of another family to a currency, which is InvalidConversion; the
\* errors of the unit parse itself are returned as they are.
C25_NoCurrencyConversionWhenDisabled ==
    (Parsed /\ ~dynamic_conversions) =>
        /\ ~HoldsCurrency(classified)
        /\ HoldsCurrency(Unchecked) =>
               IF /\ Unchecked.content.tag = "Conversion"
                  /\ Unchecked.content.from.some
                  /\ ~IsCurrency(Unchecked.content.from.value)
               THEN classified = Err("InvalidConversion")
               ELSE classified = OkNone
        /\ Unchecked.status = "Err" => classified = Unchecked

\* "12usd to eur" with dynamic conversions disabled: no content
C25_Witness ==
    /\ Parsed
    /\ ~dynamic_conversions
    /\ input = <<49, 50, 117, 115, 100, 32, 116, 111, 32, 101, 117, 114>>
    /\ HoldsCurrency(Unchecked)
    /\ classified = OkNone

\* a conversion between two known units of different families
CrossFamily(r) ==
    /\ r.status = "Some"
    /\ r.content.tag = "Conversion"
    /\ r.content.from.some
    /\ r.content.from.value.family # r.content.to.family

\* C26: classify never returns a Conversion between two known units of
\* different families; such an input gives InvalidConversion, and
\* InvalidConversion is returned only when both units are known.
C26_CrossFamilyIsInvalidConversion ==
    Parsed =>
        /\ ~CrossFamily(classified)
        /\ CrossFamily(Unchecked) => classified = Err("InvalidConversion")
        /\ classified = Err("InvalidConversion") => CrossFamily(Unchecked)

\* C26 as the code has it: the same, except that with dynamic conversions
\* disabled a conversion from a currency is no content whatever the
\* destination.
C26_CrossFamilyUnlessDisabledCurrency ==
    Parsed =>
        /\ ~CrossFamily(classified)
        /\ CrossFamily(Unchecked) =>
               IF ~dynamic_conversions
                    /\ IsCurrency(Unchecked.content.from.value)
               THEN classified = OkNone
               ELSE classified = Err("InvalidConversion")
        /\ classified = Err("InvalidConversion") => CrossFamily(Unchecked)

\* "12cm to g": a distance to a mass
C26_Witness ==
    /\ Parsed
    /\ input = <<49, 50, 99, 109, 32, 116, 111, 32, 103>>
    /\ CrossFamily(Unchecked)
    /\ classified = Err("InvalidConversion")

\* the run of digits, separators and underscores at the start of a text
IsSeparator(c) == c \in {46, 44}
IsRunChar(c)   == IsDigit(c) \/ IsSeparator(c) \/ c = 95
RunLen(s) ==
    CHOOSE n \in 0..Len(s) :
        /\ \A i \in 1..n : IsRunChar(s[i])
        /\ n = Len(s) \/ ~IsRunChar(s[n + 1])
SeparatorsIn(s, n) == { i \in 1..n : IsSeparator(s[i]) }
Smallest(S) == CHOOSE i \in S : \A k \in S : i <= k

\* the run up to its second separator, if it has one
TakenLen(s) ==
    LET seps == SeparatorsIn(s, RunLen(s))
    IN  IF Cardinality(seps) >= 2 THEN Smallest(seps \ {Smallest(seps)}) - 1
        ELSE RunLen(s)

\* the number the first n characters stand for: their digits, with the
\* first separator as the decimal point
RunValue(s, n) ==
    LET seps == SeparatorsIn(s, n)
        idx  == { i \in 1..n : IsDigit(s[i]) \/ (seps # {} /\ i = Smallest(seps)) }
        nth(k) == CHOOSE i \in idx : Cardinality({ j \in idx : j <= i }) = k
    IN  parse_f64([k \in 1..Cardinality(idx) |->
                      IF IsDigit(s[nth(k)]) THEN s[nth(k)] ELSE 46])

StartsWithNumber == Parsed /\ trim(input) # <<>> /\ IsDigit(trim(input)[1])

\* C28: in a number the first separator is the decimal point and every later
\* separator of the same run is skipped, so the whole run is one Number token
\* and the lexer goes on right after the run.
C28_LaterSeparatorsSkipped ==
    StartsWithNumber =>
        Toks = <<Number(RunValue(trim(input), RunLen(trim(input))))>>
                 \o lex(SubSeq(trim(input), RunLen(trim(input)) + 1,
                               Len(trim(input))))

\* C28 as the code has it: the first separator is the decimal point,
\* underscores are skipped, and a second separator ends the number; the
\* Number token is the run up to there and the lexer goes on at the second
\* separator.
C28_SecondSeparatorEndsNumber ==
    StartsWithNumber =>
        Toks = <<Number(RunValue(trim(input), TakenLen(trim(input))))>>
                 \o lex(SubSeq(trim(input), TakenLen(trim(input)) + 1,
                               Len(trim(input))))

\* "1,000.5" was lexed: the number 1.000, the symbol '.' and the number 5
C28_Witness ==
    /\ Parsed
    /\ input = <<49, 44, 48, 48, 48, 46, 53>>
    /\ Toks = <<Number(1000), Symbol(46), Number(5000)>>


\* the smart content the UI shows, if it shows one
ShownContent ==
    IF showing_smart_content THEN SomeOpt(smart_content) ELSE NoneOpt

\* C29: after any sequence of SearchTextChanged events the smart content
\* the UI shows is the classification of the text received last: the
\* content made of that text when it classifies as content or as an error,
\* and no content when it classifies as none.
C29_SmartContentIsOfLastText ==
    apc = "running" => ShownContent = SmartContentFor(last_text)

\* the list App::get_exec reads a position from
ExecList ==
    IF search_results # <<>> THEN search_results
    ELSE IF search_text = <<>> THEN entries
    ELSE <<>>

\* what launching a displayed item starts
Target(item) ==
    IF item.kind \in {"desktop", "path"} THEN Launch(item.kind, item.id)
    ELSE IF item.kind = "Path" THEN Launch("path", item.key)
    ELSE Launch("desktop", find_file(item.key))

\* C30: after any sequence of SearchTextChanged, DeleteEntry and Commit
\* events the list the UI displays is the list Commit(id) and get_exec
\* index into (the search results when there are some, otherwise the
\* history); a position committed from the displayed list is in range and
\* launches the item displayed at that position; and a DeleteEntry received
\* while search results are displayed changes neither the history nor the
\* displayed list.
C30_DisplayedListIsCommittedList ==
    [][ /\ apc' = "running" => ui_items' = ExecList'
        /\ \A id \in DOMAIN ui_items :
              Commit(id) => /\ apc' # "panicked"
                            /\ launched' = SomeOpt(Target(ui_items[id]))
        /\ \A id \in DOMAIN ui_items :
              (DeleteEntry(id) /\ search_results # <<>>) =>
                  UNCHANGED <<entries, ui_items>> ]_vars

\* C27: after rebuild, error() reports an error exactly when no descriptor
\* directory could be read, and the index is then empty; an unreadable
\* directory among readable ones leaves no error, whatever its position in
\* the list of directories.
C27_ErrorExactlyWhenNoDirectoryRead ==
    rpc = "done" =>
        /\ cache_error.some <=> \A i \in DOMAIN data_dirs : ~data_dirs[i].readable
        /\ cache_error.some => cache_entries = <<>>
====
